---- MODULE Spec2Model ----
(***************************************************************************)
(* Verification model of the recommendation platform.                      *)
(*                                                                         *)
(*   SpecBatcher   - ranking-service/app/models/model_server.py:           *)
(*                   ModelServer (request queue, batch processor thread,   *)
(*                   load_model / reload_model) and PredictionRequest.     *)
(*   SpecReload    - load_model / reload_model against the batcher.        *)
(*   SpecOverload  - the same ModelServer under a burst of submissions.    *)
(*   SpecFeature   - feature-service get_user_features /                   *)
(*                   get_content_features (cache read, compute on miss).   *)
(*   SpecWriters   - feature-service process_user_behavior and             *)
(*                   compute_all_user_features writing one user's record.  *)
(*   SpecScheduler - feature-service OfflineFeatureService scheduler over  *)
(*                   the registry of the schedule module.                  *)
(*   SpecFusion    - ranking-service FusionRerankingService                *)
(*                   fuse_and_rerank, stage by stage.                      *)
(*   SpecRanking   - ranking-service POST /api/v1/ranking/rank through     *)
(*                   RankingService.rank_candidates, candidate by          *)
(*                   candidate.                                            *)
(*   SpecIngest    - feature-service POST /behavior: the feature patch and *)
(*                   the ClickHouse append as background tasks.            *)
(*   SpecStages    - FusionRerankingService _fuse_algorithm_results,       *)
(*                   _ensure_diversity and _apply_business_rules called    *)
(*                   on their own, and update_config.                      *)
(*   SpecManager   - ranking-service ModelManager: register_model,         *)
(*                   start_model_server, stop_model_server.                *)
(*   SpecHydration - ranking-service _get_*_features and                   *)
(*                   update_*_features on the FeatureStore of one event    *)
(*                   loop.                                                 *)
(*                                                                         *)
(* Batcher time is counted in ticks of one batch_timeout_ms.  Floats are   *)
(* modelled by integers: the default score 0.0 is 0, a scorer output is    *)
(* positive.                                                               *)
(***************************************************************************)
EXTENDS Integers, Sequences, FiniteSets, TLC

\* ---------------------------------------------------------------- bounds
MaxRequests == 2
MaxReloadRequests == 1
MaxBurst == 9
MaxTime == 2
MaxLoads == 1
MaxBatchSizeCfg == 2
MaxTasks == 3
NumIds == 2
MaxWriters == 2
MaxStarts == 2
MaxSlots == 2
MaxListLen == 2
MaxTarget == 2
MaxClock == 1
MaxRuns == 2

\* batch_timeout_ms and the get_result timeout, in ticks
BatchTimeout == 1
Deadline == 2

\* model paths: self.model_path is 1, a new_model_path is 2
Paths == {1, 2}
Ids == 1..NumIds
Tasks == 1..MaxTasks
Writers == 1..MaxWriters

\* The OfflineFeatureService instances: 1 is the one main.py's lifespan
\* creates, 2 is the module-level offline_service of api/routes.py
Services == {1, 2}

\* The job functions _setup_schedules registers, by schedule_config key
JobNames == {"user_features_daily", "content_features_hourly",
             "interaction_matrix_daily", "trending_contents_hourly",
             "cleanup_weekly"}
Slots == 0..MaxSlots

NoneVal == 0 - 1
DefaultScore == 0

VARIABLES
    now,            \* time.time(), in ticks
    max_batch_size, \* ModelServer.max_batch_size
    model,          \* ModelServer.model: 0 is None, else an index of objs
    model_version,  \* ModelServer.model_version: 0 is None, else a path
    objs,           \* the WideDeepModel instances created so far
    ld,             \* the frame of the running load_model / reload_model
    pending,        \* ModelServer.pending_requests (request ids)
    reqs,           \* the PredictionRequest objects and their callers
    bp,             \* the batch_processor thread
    batches,        \* every batch taken off the queue, in order
    cache,          \* redis: id -> cached features (0 is absent)
    tasks,          \* the running get_*_features coroutines
    computations,   \* id -> number of _compute_*_features runs
    writers,        \* the running writers of cached user features
    services,       \* the OfflineFeatureService instances of the process
    jobs,           \* schedule.jobs, the registry of the schedule module
    slot,           \* the scheduler's clock, in firing slots
    runs,           \* (job name, slot) -> number of runs of the job function
    request,        \* the arguments of fuse_and_rerank
    fr,             \* the frame of the running fuse_and_rerank
    outputs,        \* the lists fuse_and_rerank has returned, in order
    today,          \* datetime.now(), in ticks of twelve hours
    rk,             \* the frame of the running rank request
    bg,             \* the BackgroundTasks of the POST /behavior requests
    user_behaviors, \* the rows of the ClickHouse table user_behaviors
    algorithm_weights,
                    \* FusionRerankingService.algorithm_weights, in tenths
    manager,        \* the ModelManager: its configurations and servers
    feature_store   \* the ranking FeatureStore and the coroutines on it

varsB == <<now, max_batch_size, model, model_version, objs, ld, pending,
           reqs, bp, batches>>
varsF == <<cache, tasks, computations>>
varsW == <<writers>>
varsS == <<services, jobs, slot, runs>>
varsR == <<request, fr, outputs, today, algorithm_weights>>
varsK == <<rk>>
varsI == <<bg, user_behaviors>>
varsM == <<manager>>
varsH == <<feature_store>>
varsX == <<varsK, varsI, varsM, varsH>>
varsO == <<varsW, varsS, varsR, varsX>>
varsA == <<varsB, varsF, varsW, varsS, varsR, varsM, varsH>>
vars == <<now, max_batch_size, model, model_version, objs, ld, pending,
          reqs, bp, batches, cache, tasks, computations, writers,
          services, jobs, slot, runs, request, fr, outputs, today,
          rk,
          bg,
          user_behaviors,
          algorithm_weights, manager, feature_store>>

\* ------------------------------------------------------------- helpers
Min(a, b) == IF a < b THEN a ELSE b

Range(s) == {s[i] : i \in 1..Len(s)}

Take(s, n) == SubSeq(s, 1, n)

Drop(s, n) == SubSeq(s, n + 1, Len(s))

\* The opaque scorer: the score a loaded instance with weights w gives to
\* the features f.  Positive, and different for different (w, f).
Score(w, f) == 10 * w + f

\* model.predict(model_input) on a whole batch of feature values
PredictAll(w, fs) == [i \in 1..Len(fs) |-> Score(w, fs[i])]

\* ModelServer._get_model_version: the version string of a path
get_model_version(path) == path

\* ----------------------------------------------------------------- Init
IdleLoader ==
    [pc |-> "idle", kind |-> "none", path |-> 0, old_model |-> 0,
     old_version |-> 0, success |-> FALSE, calls |-> 0]

IdleProcessor == [pc |-> "poll", wake |-> 0, scorer |-> 0]

\* A redis without feature keys
EmptyCache == [i \in Ids |-> 0]

\* No get_*_features coroutine is running
IdleTasks == [t \in Tasks |-> [pc |-> "idle", id |-> 0, val |-> 0]]

\* No _compute_*_features has run
NoComputations == [i \in Ids |-> 0]

\* No process_user_behavior / compute_all_user_features is running
IdleWriters ==
    [w \in Writers |-> [pc |-> "idle", kind |-> "none", id |-> 0, arg |-> 0,
                        val |-> 0, failed |-> FALSE]]

\* OfflineFeatureService.__init__: is_running False, no scheduler thread
\* (threads: the live ones, started: all that were ever started,
\* dispatched: the jobs its threads have run, tasks_created: the
\* compute_* / cleanup coroutines its job functions have scheduled)
StoppedServices ==
    [s \in Services |-> [is_running |-> FALSE, threads |-> 0, started |-> 0,
                         dispatched |-> 0, tasks_created |-> 0]]

\* No job function has run
NoRuns == [k \in JobNames \X Slots |-> 0]

\* fuse_and_rerank has not been called
NoRequest ==
    [algorithm_results |-> <<>>, target_size |-> 0,
     context |-> [present |-> FALSE, user_active_hours |-> {}]]

IdleFusion == [pc |-> "idle", cur |-> <<>>, current_time |-> 0]

\* the ranking service with no rank request in progress
IdleRanking ==
    [pc |-> "idle", candidates |-> <<>>, context |-> "none",
     max_results |-> 1, scorer |-> 0, user_store |-> 0,
     store |-> <<>>, user_features |-> 0, context_features |-> 0,
     content_features |-> 0, scored |-> <<>>, ranked |-> <<>>,
     hydration_failed |-> FALSE, scoring_failed |-> FALSE,
     prediction_count |-> 0, status |-> 0, ranked_items |-> <<>>]

\* no POST /behavior request has been received
IdleBackground ==
    [w \in Writers |-> [pc |-> "none", id |-> 0, weight |-> 0,
                        store_failed |-> FALSE]]

\* an empty behavior log (the table is a set of rows)
NoBehaviors == {}

\* ModelManager.__init__: no configuration, no active server
\* (active_servers: 0 is absent, else an index of servers); servers are the
\* ModelServer instances created so far, result the last call's return
ModelNames == {"test_model", "other_model"}

NoManager ==
    [model_configs |-> {}, active_servers |-> [n \in ModelNames |-> 0],
     servers |-> <<>>, calls |-> 0, result |-> [op |-> "none"]]

\* The keys of the ranking FeatureStore: "user_features:<id>" and
\* "content_features:<id>", for one user and one content
FeatureIds == {1}
FeatureKeys == {"user_features", "content_features"} \X FeatureIds

\* No key is cached (<<>> is an absent key, <<v>> the JSON of features
\* whose user_activity_score or content_hot_score is v tenths), no
\* _get_*_features and no update_*_features coroutine has been started
IdleFeatureStore ==
    [redis |-> [k \in FeatureKeys |-> <<>>],
     lookup |-> [k \in FeatureKeys |->
                    [pc |-> "none", missed |-> FALSE, result |-> <<>>]],
     update |-> [k \in FeatureKeys |->
                    [pc |-> "none", processed |-> <<>>]]]

\* algorithm_weights of the configuration the service is built with
DefaultAlgorithmWeights ==
    [name \in {"collaborative_filtering", "content_based", "deep_learning"}
        |-> IF name = "deep_learning" THEN 4 ELSE 3]

\* ModelServer.__init__: no model, an empty queue, the batch processor
\* thread started; the feature service has nothing cached
InitServer ==
    /\ now = 0
    /\ max_batch_size \in 1..MaxBatchSizeCfg
    /\ model = 0
    /\ model_version = 0
    /\ objs = <<>>
    /\ ld = IdleLoader
    /\ pending = <<>>
    /\ reqs = <<>>
    /\ bp = IdleProcessor
    /\ batches = <<>>
    /\ cache = EmptyCache
    /\ tasks = IdleTasks
    /\ computations = NoComputations
    /\ writers = IdleWriters
    /\ services = StoppedServices
    /\ jobs = <<>>
    /\ slot = 0
    /\ runs = NoRuns
    /\ request = NoRequest
    /\ fr = IdleFusion
    /\ outputs = <<>>
    /\ today = 0
    /\ rk = IdleRanking
    /\ bg = IdleBackground
    /\ user_behaviors = NoBehaviors
    /\ algorithm_weights = DefaultAlgorithmWeights
    /\ manager = NoManager
    /\ feature_store = IdleFeatureStore

\* A ModelServer at the moment reload traffic starts: either as
\* ModelServer.__init__ leaves it, or after a successful load_model()
InitReload ==
    /\ now = 0
    /\ max_batch_size \in 1..MaxBatchSizeCfg
    /\ \/ /\ model = 0
          /\ model_version = 0
          /\ objs = <<>>
       \/ /\ model = 1
          /\ model_version = get_model_version(1)
          /\ objs = <<[loaded |-> TRUE, weights |-> 1]>>
    /\ ld = IdleLoader
    /\ pending = <<>>
    /\ reqs = <<>>
    /\ bp = IdleProcessor
    /\ batches = <<>>
    /\ cache = EmptyCache
    /\ tasks = IdleTasks
    /\ computations = NoComputations
    /\ writers = IdleWriters
    /\ services = StoppedServices
    /\ jobs = <<>>
    /\ slot = 0
    /\ runs = NoRuns
    /\ request = NoRequest
    /\ fr = IdleFusion
    /\ outputs = <<>>
    /\ today = 0
    /\ rk = IdleRanking
    /\ bg = IdleBackground
    /\ user_behaviors = NoBehaviors
    /\ algorithm_weights = DefaultAlgorithmWeights
    /\ manager = NoManager
    /\ feature_store = IdleFeatureStore

\* A ModelServer that ModelManager.start_model_server has constructed and
\* whose load_model() has succeeded: one instance, weights of model_path
InitServing ==
    /\ now = 0
    /\ max_batch_size \in 1..MaxBatchSizeCfg
    /\ model = 1
    /\ model_version = get_model_version(1)
    /\ objs = <<[loaded |-> TRUE, weights |-> 1]>>
    /\ ld = IdleLoader
    /\ pending = <<>>
    /\ reqs = <<>>
    /\ bp = IdleProcessor
    /\ batches = <<>>
    /\ cache = EmptyCache
    /\ tasks = IdleTasks
    /\ computations = NoComputations
    /\ writers = IdleWriters
    /\ services = StoppedServices
    /\ jobs = <<>>
    /\ slot = 0
    /\ runs = NoRuns
    /\ request = NoRequest
    /\ fr = IdleFusion
    /\ outputs = <<>>
    /\ today = 0
    /\ rk = IdleRanking
    /\ bg = IdleBackground
    /\ user_behaviors = NoBehaviors
    /\ algorithm_weights = DefaultAlgorithmWeights
    /\ manager = NoManager
    /\ feature_store = IdleFeatureStore

\* ------------------------------------------- PredictionRequest / callers
\* The features of the r-th submission: the inputs x_1, x_2, ... differ
InputOf(r) == r

\* PredictionRequest.__init__ together with the caller that awaits it
\* (err is the exception the call raises to its caller; get_result raises
\* none)
NewRequest(f) ==
    [features |-> f, timestamp |-> now, result |-> NoneVal, event |-> FALSE,
     state |-> "waiting", via |-> "none", ret |-> NoneVal, err |-> "none"]

\* ModelServer.predict_async up to its await: the request is created and
\* appended to pending_requests under request_lock.  cap bounds the number
\* of submissions of a run.
predict_async(cap) ==
    /\ Len(reqs) < cap
    /\ reqs' = Append(reqs, NewRequest(InputOf(Len(reqs) + 1)))
    /\ pending' = Append(pending, Len(reqs) + 1)
    /\ UNCHANGED <<now, max_batch_size, model, model_version, objs, ld, bp,
                   batches>>
    /\ UNCHANGED <<varsF, varsO>>

\* PredictionRequest.get_result, the event was set: return self.result
get_result(r) ==
    /\ r \in 1..Len(reqs)
    /\ reqs[r].state = "waiting"
    /\ reqs[r].event
    /\ reqs' = [reqs EXCEPT ![r].state = "returned", ![r].via = "event",
                            ![r].ret = reqs[r].result]
    /\ UNCHANGED <<now, max_batch_size, model, model_version, objs, ld,
                   pending, bp, batches>>
    /\ UNCHANGED <<varsF, varsO>>

\* a timed-out get_result that hands back whatever result is there
TimeoutReturnsResult(q) == IF q.event THEN q.result ELSE DefaultScore

\* What get_result hands back when asyncio.wait_for times out
TimeoutReturn(q) == DefaultScore

\* PredictionRequest.get_result, asyncio.TimeoutError: return 0.0.  The
\* event is set from the batch processor thread, so at the deadline the
\* timeout may win even though the result has just been set.
get_result_timeout(r) ==
    /\ r \in 1..Len(reqs)
    /\ reqs[r].state = "waiting"
    /\ now >= reqs[r].timestamp + Deadline
    /\ reqs' = [reqs EXCEPT ![r].state = "returned", ![r].via = "timeout",
                            ![r].ret = TimeoutReturn(reqs[r])]
    /\ UNCHANGED <<now, max_batch_size, model, model_version, objs, ld,
                   pending, bp, batches>>
    /\ UNCHANGED <<varsF, varsO>>

\* set_result with the scores handed out from the far end of the batch
set_results_reversed(rs, batch, scores) ==
    [r \in 1..Len(rs) |->
        IF \E i \in 1..Min(Len(batch), Len(scores)) : batch[i] = r
        THEN LET i == CHOOSE j \in 1..Min(Len(batch), Len(scores)) :
                          batch[j] = r
             IN [rs[r] EXCEPT !.result = scores[Len(scores) + 1 - i],
                              !.event = TRUE]
        ELSE rs[r]]

\* PredictionRequest.set_result applied to the requests of a batch, in zip
\* order: the i-th request gets the i-th score, requests beyond the scores
\* are left untouched.
set_results(rs, batch, scores) ==
    [r \in 1..Len(rs) |->
        IF \E i \in 1..Min(Len(batch), Len(scores)) : batch[i] = r
        THEN LET i == CHOOSE j \in 1..Min(Len(batch), Len(scores)) :
                          batch[j] = r
             IN [rs[r] EXCEPT !.result = scores[i], !.event = TRUE]
        ELSE rs[r]]

\* [0.0] * len(features_list)
Zeros(n) == [i \in 1..n |-> DefaultScore]

\* ------------------------------------------------- batch processor thread
CurrentBatch == batches[Len(batches)]

\* How many requests one pass of the loop takes off the queue
BatchSize(q) == Min(Len(q), max_batch_size)

\* a pass that forgets to cut its batch off the queue
RemainingUncut(q) == q

\* What one pass leaves on the queue
Remaining(q) == Drop(q, BatchSize(q))

\* batch_processor, queue not empty: take a batch under request_lock and
\* enter _process_batch
batch_processor_take ==
    /\ bp.pc = "poll"
    /\ pending # <<>>
    /\ batches' = Append(batches,
           [reqs |-> Take(pending, BatchSize(pending)),
            status |-> "flushing", scorer |-> 0, scores |-> <<>>,
            raised |-> FALSE])
    /\ pending' = Remaining(pending)
    /\ bp' = [bp EXCEPT !.pc = "check"]
    /\ UNCHANGED <<now, max_batch_size, model, model_version, objs, ld,
                   reqs>>
    /\ UNCHANGED <<varsF, varsO>>

\* batch_processor, queue empty: time.sleep(batch_timeout_ms / 1000)
batch_processor_sleep ==
    /\ bp.pc = "poll"
    /\ pending = <<>>
    /\ bp' = [bp EXCEPT !.pc = "sleep", !.wake = now + BatchTimeout]
    /\ UNCHANGED <<now, max_batch_size, model, model_version, objs, ld,
                   pending, reqs, batches>>
    /\ UNCHANGED <<varsF, varsO>>

\* the sleep is over
batch_processor_wake ==
    /\ bp.pc = "sleep"
    /\ now >= bp.wake
    /\ bp' = [bp EXCEPT !.pc = "poll", !.wake = 0]
    /\ UNCHANGED <<now, max_batch_size, model, model_version, objs, ld,
                   pending, reqs, batches>>
    /\ UNCHANGED <<varsF, varsO>>

\* The batch ends: scores are zipped onto its requests and the loop polls
\* again.  raised tells whether the scorer (or the model check) raised.
FinishBatch(scores, raised) ==
    /\ reqs' = set_results(reqs, CurrentBatch.reqs, scores)
    /\ batches' = [batches EXCEPT ![Len(batches)].status =
                                      IF raised THEN "failed" ELSE "done",
                                  ![Len(batches)].scores = scores,
                                  ![Len(batches)].raised = raised]
    /\ bp' = [bp EXCEPT !.pc = "poll", !.scorer = 0]

\* predict_batch_sync, "if not self.model: raise ValueError": the error
\* reaches _process_batch, which sets 0.0 on every request of the batch
predict_batch_sync_no_model ==
    /\ bp.pc = "check"
    /\ model = 0
    /\ FinishBatch(Zeros(Len(CurrentBatch.reqs)), TRUE)
    /\ UNCHANGED <<now, max_batch_size, model, model_version, objs, ld,
                   pending>>
    /\ UNCHANGED <<varsF, varsO>>

\* predict_batch_sync, a model is there: build the model input
predict_batch_sync_begin ==
    /\ bp.pc = "check"
    /\ model # 0
    /\ bp' = [bp EXCEPT !.pc = "call"]
    /\ UNCHANGED <<now, max_batch_size, model, model_version, objs, ld,
                   pending, reqs, batches>>
    /\ UNCHANGED <<varsF, varsO>>

\* The object self.model.predict is invoked on
CalledScorer == model

\* predict_batch_sync, self.model.predict(model_input) is called on an
\* instance with loaded weights: the call is in flight
predict_call ==
    /\ bp.pc = "call"
    /\ CalledScorer # 0
    /\ objs[CalledScorer].loaded
    /\ bp' = [bp EXCEPT !.pc = "predict", !.scorer = CalledScorer]
    /\ batches' = [batches EXCEPT ![Len(batches)].scorer = CalledScorer]
    /\ UNCHANGED <<now, max_batch_size, model, model_version, objs, ld,
                   pending, reqs>>
    /\ UNCHANGED <<varsF, varsO>>

\* predict_batch_sync, self.model.predict raises at once (self.model is
\* None again, or WideDeepModel.predict finds its weights not loaded):
\* "except Exception" returns [0.0] * len(features_list)
predict_call_unloaded ==
    /\ bp.pc = "call"
    /\ \/ model = 0
       \/ /\ model # 0
          /\ ~objs[model].loaded
    /\ FinishBatch(Zeros(Len(CurrentBatch.reqs)), TRUE)
    /\ UNCHANGED <<now, max_batch_size, model, model_version, objs, ld,
                   pending>>
    /\ UNCHANGED <<varsF, varsO>>

BatchFeatures == [i \in 1..Len(CurrentBatch.reqs) |->
                     reqs[CurrentBatch.reqs[i]].features]

\* scoring that looks self.model up again when the call returns
ScorerReadAtReturn ==
    IF model # 0 /\ objs[model].loaded THEN model ELSE bp.scorer

\* The instance whose weights produce the scores of the call in flight
ScoringInstance == bp.scorer

\* The scores predict_batch_sync returns when the scorer answers
ScorerOutput == PredictAll(objs[ScoringInstance].weights, BatchFeatures)

\* an error path that hands no scores back
NoErrorScores(n) == <<>>

\* The scores predict_batch_sync returns when the scorer raises
ErrorScores(n) == Zeros(n)

\* the call in flight returns one score per row
predict_return ==
    /\ bp.pc = "predict"
    /\ FinishBatch(ScorerOutput, FALSE)
    /\ UNCHANGED <<now, max_batch_size, model, model_version, objs, ld,
                   pending>>
    /\ UNCHANGED <<varsF, varsO>>

\* the call in flight raises: "except Exception" returns the zeros
predict_raise ==
    /\ bp.pc = "predict"
    /\ FinishBatch(ErrorScores(Len(CurrentBatch.reqs)), TRUE)
    /\ UNCHANGED <<now, max_batch_size, model, model_version, objs, ld,
                   pending>>
    /\ UNCHANGED <<varsF, varsO>>

\* the call in flight returns fewer scores than rows: zip stops early
predict_return_short ==
    /\ bp.pc = "predict"
    /\ FinishBatch(Take(ScorerOutput, Len(ScorerOutput) - 1), FALSE)
    /\ UNCHANGED <<now, max_batch_size, model, model_version, objs, ld,
                   pending>>
    /\ UNCHANGED <<varsF, varsO>>

\* ------------------------------------------------ load_model / reload_model
\* A call of load_model(path) or reload_model(path) begins.  reload_model
\* first saves self.model and self.model_version.
call_load(kind, path) ==
    /\ ld.pc = "idle"
    /\ ld.calls < MaxLoads
    /\ ld' = [pc |-> "create", kind |-> kind, path |-> path,
              old_model |-> IF kind = "reload" THEN model ELSE 0,
              old_version |-> IF kind = "reload" THEN model_version ELSE 0,
              success |-> FALSE, calls |-> ld.calls + 1]
    /\ UNCHANGED <<now, max_batch_size, model, model_version, objs, pending,
                   reqs, bp, batches>>
    /\ UNCHANGED <<varsF, varsO>>

\* Where a load that raised goes on: load_model returns False, reload_model
\* still has its restore to do
AfterFailure(kind) == IF kind = "reload" THEN "restore" ELSE "idle"

\* load_model: self.model = WideDeepModel(wide_columns, deep_columns), a
\* fresh instance without weights
load_model_create ==
    /\ ld.pc = "create"
    /\ objs' = Append(objs, [loaded |-> FALSE, weights |-> 0])
    /\ model' = Len(objs) + 1
    /\ ld' = [ld EXCEPT !.pc = "load"]
    /\ UNCHANGED <<now, max_batch_size, model_version, pending, reqs, bp,
                   batches>>
    /\ UNCHANGED <<varsF, varsO>>

\* load_model: building the instance raises, "except Exception" returns
\* False
load_model_create_fails ==
    /\ ld.pc = "create"
    /\ ld' = [ld EXCEPT !.pc = AfterFailure(ld.kind), !.success = FALSE]
    /\ UNCHANGED <<now, max_batch_size, model, model_version, objs, pending,
                   reqs, bp, batches>>
    /\ UNCHANGED <<varsF, varsO>>

\* load_model: self.model.load_model(path) loads the weights
load_model_weights ==
    /\ ld.pc = "load"
    /\ objs' = [objs EXCEPT ![model].loaded = TRUE, ![model].weights = ld.path]
    /\ ld' = [ld EXCEPT !.pc = "version"]
    /\ UNCHANGED <<now, max_batch_size, model, model_version, pending, reqs,
                   bp, batches>>
    /\ UNCHANGED <<varsF, varsO>>

\* load_model: self.model.load_model(path) raises, returns False
load_model_weights_fail ==
    /\ ld.pc = "load"
    /\ ld' = [ld EXCEPT !.pc = AfterFailure(ld.kind), !.success = FALSE]
    /\ UNCHANGED <<now, max_batch_size, model, model_version, objs, pending,
                   reqs, bp, batches>>
    /\ UNCHANGED <<varsF, varsO>>

\* load_model: self.model_version = self._get_model_version(path), return
\* True (reload_model then only logs and returns True)
load_model_version ==
    /\ ld.pc = "version"
    /\ model_version' = get_model_version(ld.path)
    /\ ld' = [ld EXCEPT !.pc = "idle", !.success = TRUE]
    /\ UNCHANGED <<now, max_batch_size, model, objs, pending, reqs, bp,
                   batches>>
    /\ UNCHANGED <<varsF, varsO>>

\* a reload that leaves self.model as the failed load left it
UnrestoredModel == model

\* The model reload_model puts back after a failed load
RestoredModel == ld.old_model

\* The version reload_model puts back after a failed load
RestoredVersion == ld.old_version

\* reload_model, success is False: self.model = old_model,
\* self.model_version = old_version, return False
reload_model_restore ==
    /\ ld.pc = "restore"
    /\ model' = RestoredModel
    /\ model_version' = RestoredVersion
    /\ ld' = [ld EXCEPT !.pc = "idle"]
    /\ UNCHANGED <<now, max_batch_size, objs, pending, reqs, bp, batches>>
    /\ UNCHANGED <<varsF, varsO>>

\* ------------------------------------------------------------------ time
\* A waiting caller whose wait_for deadline has come
Overdue(r) ==
    /\ reqs[r].state = "waiting"
    /\ now >= reqs[r].timestamp + Deadline

\* One tick passes.  The processor's own steps take no time except its
\* sleep and the scorer call; a caller at its deadline returns before the
\* clock moves on.
Tick ==
    /\ now < MaxTime
    /\ \/ bp.pc = "predict"
       \/ /\ bp.pc = "sleep"
          /\ now < bp.wake
    /\ \A r \in 1..Len(reqs) : ~Overdue(r)
    /\ now' = now + 1
    /\ UNCHANGED <<max_batch_size, model, model_version, objs, ld, pending,
                   reqs, bp, batches>>
    /\ UNCHANGED <<varsF, varsO>>

\* ----------------------------------------------------------- SpecBatcher
\* The batcher of a serving ModelServer: submissions, the batch processor
\* thread, the scorer call and the callers' waits, under the clock.
NextBatcher ==
    \/ predict_async(MaxRequests)
    \/ \E r \in 1..MaxRequests : get_result(r)
    \/ \E r \in 1..MaxRequests : get_result_timeout(r)
    \/ batch_processor_take
    \/ batch_processor_sleep
    \/ batch_processor_wake
    \/ predict_batch_sync_begin
    \/ predict_call
    \/ predict_return
    \/ predict_raise
    \/ predict_return_short
    \/ Tick

SpecBatcher == InitServing /\ [][NextBatcher]_vars

\* ------------------------------------------------------------ SpecReload
\* load_model and reload_model calls run while the batch processor thread
\* scores batches.
NextReload ==
    \/ predict_async(MaxReloadRequests)
    \/ \E r \in 1..MaxReloadRequests : get_result(r)
    \/ \E r \in 1..MaxReloadRequests : get_result_timeout(r)
    \/ batch_processor_take
    \/ batch_processor_sleep
    \/ batch_processor_wake
    \/ predict_batch_sync_no_model
    \/ predict_batch_sync_begin
    \/ predict_call
    \/ predict_call_unloaded
    \/ predict_return
    \/ predict_raise
    \/ \E k \in {"load", "reload"}, p \in Paths : call_load(k, p)
    \/ load_model_create
    \/ load_model_create_fails
    \/ load_model_weights
    \/ load_model_weights_fail
    \/ load_model_version
    \/ reload_model_restore
    \/ Tick

SpecReload == InitReload /\ [][NextReload]_vars

\* ---------------------------------------------------------- SpecOverload
\* A burst of submissions to a serving ModelServer, with the clock
\* standing still.
NextOverload ==
    \/ predict_async(MaxBurst)
    \/ \E r \in 1..MaxBurst : get_result(r)
    \/ batch_processor_take
    \/ batch_processor_sleep
    \/ predict_batch_sync_begin
    \/ predict_call
    \/ predict_return

SpecOverload == InitServing /\ [][NextOverload]_vars

\* ---------------------------------------------------------- SpecFeature
\* UserFeatureService.get_user_features and
\* ContentFeatureService.get_content_features, one coroutine per task.
\* Features are modelled by a positive number, None and a missing key by 0.

\* _compute_user_features / _compute_content_features: the features the
\* analytical store yields for an id
ComputedFeatures(i) == 10 + i

\* get_*_features is called for id i and awaits redis_client.get
get_features_call(t, i) ==
    /\ tasks[t].pc = "idle"
    /\ tasks' = [tasks EXCEPT ![t] = [pc |-> "get", id |-> i, val |-> 0]]
    /\ UNCHANGED <<cache, computations>>
    /\ UNCHANGED <<varsB, varsO>>

\* redis answers the GET with the cached features: they are returned
get_features_hit(t) ==
    /\ tasks[t].pc = "get"
    /\ cache[tasks[t].id] # 0
    /\ tasks' = [tasks EXCEPT ![t].pc = "done",
                              ![t].val = cache[tasks[t].id]]
    /\ UNCHANGED <<cache, computations>>
    /\ UNCHANGED <<varsB, varsO>>

\* redis answers the GET with nothing
get_features_miss(t) ==
    /\ tasks[t].pc = "get"
    /\ cache[tasks[t].id] = 0
    /\ tasks' = [tasks EXCEPT ![t].pc = "miss"]
    /\ UNCHANGED <<cache, computations>>
    /\ UNCHANGED <<varsB, varsO>>

\* the GET raises: "except Exception" returns None
get_features_error(t) ==
    /\ tasks[t].pc = "get"
    /\ tasks' = [tasks EXCEPT ![t].pc = "done", ![t].val = 0]
    /\ UNCHANGED <<cache, computations>>
    /\ UNCHANGED <<varsB, varsO>>

\* the coroutine resumes after a miss: _compute_*_features runs (it never
\* suspends) and _cache_*_features awaits the SETEX
get_features_compute(t) ==
    /\ tasks[t].pc = "miss"
    /\ computations' = [computations EXCEPT ![tasks[t].id] = @ + 1]
    /\ tasks' = [tasks EXCEPT ![t].pc = "setex",
                              ![t].val = ComputedFeatures(tasks[t].id)]
    /\ UNCHANGED cache
    /\ UNCHANGED <<varsB, varsO>>

\* _compute_*_features returns None (its own "except Exception"): nothing
\* is cached and None is returned
get_features_compute_none(t) ==
    /\ tasks[t].pc = "miss"
    /\ computations' = [computations EXCEPT ![tasks[t].id] = @ + 1]
    /\ tasks' = [tasks EXCEPT ![t].pc = "done", ![t].val = 0]
    /\ UNCHANGED cache
    /\ UNCHANGED <<varsB, varsO>>

\* the SETEX is applied and the computed features are returned
cache_features(t) ==
    /\ tasks[t].pc = "setex"
    /\ cache' = [cache EXCEPT ![tasks[t].id] = tasks[t].val]
    /\ tasks' = [tasks EXCEPT ![t].pc = "done"]
    /\ UNCHANGED computations
    /\ UNCHANGED <<varsB, varsO>>

\* the SETEX raises: _cache_*_features logs it, the features are returned
cache_features_error(t) ==
    /\ tasks[t].pc = "setex"
    /\ tasks' = [tasks EXCEPT ![t].pc = "done"]
    /\ UNCHANGED <<cache, computations>>
    /\ UNCHANGED <<varsB, varsO>>

NextFeature ==
    \/ \E t \in Tasks, i \in Ids : get_features_call(t, i)
    \/ \E t \in Tasks : get_features_hit(t)
    \/ \E t \in Tasks : get_features_miss(t)
    \/ \E t \in Tasks : get_features_error(t)
    \/ \E t \in Tasks : get_features_compute(t)
    \/ \E t \in Tasks : get_features_compute_none(t)
    \/ \E t \in Tasks : cache_features(t)
    \/ \E t \in Tasks : cache_features_error(t)

SpecFeature == InitServer /\ [][NextFeature]_vars

\* ---------------------------------------------------------- SpecWriters
\* The writers of the cached features of a user:
\* UserFeatureService.process_user_behavior (an ingestion patch) and the
\* loop body of OfflineFeatureService.compute_all_user_features (an offline
\* refresh).  Both read the record with get_user_features, change the
\* object they got and store it with _cache_user_features.  A features
\* record is modelled by the positive number 1 + behavior_score, the score
\* counted in tenths.

\* _create_default_features: behavior_score 0.0
DefaultFeatures == 1

\* behavior_weights of VIEW and CLICK; weight * 0.1 is one tenth per unit
BehaviorWeights == {1, 2}

\* The record whose behavior_score is feature_data['behavior_score'] of
\* compute_user_offline_features for an id: the sum of the action weights
\* over the user's behaviors of the window (five views for id 1, five
\* shares for id 2), which the query neither divides nor caps
OfflineFeatures(i) == 1 + 50 * i * i

\* The record a writer stores, from the record v it has read: the patch
\* adds weight * 0.1 to behavior_score, the refresh assigns the offline one
Written(w, v) == IF w.kind = "patch" THEN v + w.arg ELSE w.arg

\* process_user_behavior(behavior) is called and awaits the GET of
\* get_user_features
process_user_behavior(w, i, weight) ==
    /\ writers[w].pc = "idle"
    /\ writers' = [writers EXCEPT ![w] =
           [pc |-> "get", kind |-> "patch", id |-> i, arg |-> weight,
            val |-> 0, failed |-> FALSE]]
    /\ UNCHANGED <<varsB, varsF, varsS, varsR, varsX>>

\* compute_all_user_features reaches user i of offline_features and awaits
\* the GET of get_user_features
compute_all_user_features(w, i) ==
    /\ writers[w].pc = "idle"
    /\ writers' = [writers EXCEPT ![w] =
           [pc |-> "get", kind |-> "refresh", id |-> i,
            arg |-> OfflineFeatures(i), val |-> 0, failed |-> FALSE]]
    /\ UNCHANGED <<varsB, varsF, varsS, varsR, varsX>>

\* redis answers the GET with the cached record: the writer changes its
\* copy (nothing suspends in between) and awaits the SETEX
writer_get_hit(w) ==
    /\ writers[w].pc = "get"
    /\ cache[writers[w].id] # 0
    /\ writers' = [writers EXCEPT
           ![w].pc = "setex",
           ![w].val = Written(writers[w], cache[writers[w].id])]
    /\ UNCHANGED <<varsB, varsF, varsS, varsR, varsX>>

\* redis answers the GET with nothing: get_user_features computes the
\* features and awaits the SETEX that caches them
writer_get_miss(w) ==
    /\ writers[w].pc = "get"
    /\ cache[writers[w].id] = 0
    /\ computations' = [computations EXCEPT ![writers[w].id] = @ + 1]
    /\ writers' = [writers EXCEPT
           ![w].pc = "fill",
           ![w].val = ComputedFeatures(writers[w].id)]
    /\ UNCHANGED <<cache, tasks>>
    /\ UNCHANGED <<varsB, varsS, varsR, varsX>>

\* the GET raises: get_user_features returns None and the writer goes on
\* from _create_default_features
writer_get_error(w) ==
    /\ writers[w].pc = "get"
    /\ writers' = [writers EXCEPT
           ![w].pc = "setex",
           ![w].val = Written(writers[w], DefaultFeatures),
           ![w].failed = TRUE]
    /\ UNCHANGED <<varsB, varsF, varsS, varsR, varsX>>

\* the SETEX of get_user_features is applied; the writer gets the computed
\* record, changes it and awaits its own SETEX
writer_fill(w) ==
    /\ writers[w].pc = "fill"
    /\ cache' = [cache EXCEPT ![writers[w].id] = writers[w].val]
    /\ writers' = [writers EXCEPT
           ![w].pc = "setex",
           ![w].val = Written(writers[w], writers[w].val)]
    /\ UNCHANGED <<tasks, computations>>
    /\ UNCHANGED <<varsB, varsS, varsR, varsX>>

\* the SETEX of _cache_user_features is applied: the writer's record
\* replaces whatever the key holds
writer_setex(w) ==
    /\ writers[w].pc = "setex"
    /\ cache' = [cache EXCEPT ![writers[w].id] = writers[w].val]
    /\ writers' = [writers EXCEPT ![w].pc = "done"]
    /\ UNCHANGED <<tasks, computations>>
    /\ UNCHANGED <<varsB, varsS, varsR, varsX>>

\* the SETEX raises: _cache_user_features logs it and the write is lost
writer_setex_error(w) ==
    /\ writers[w].pc = "setex"
    /\ writers' = [writers EXCEPT ![w].pc = "done", ![w].failed = TRUE]
    /\ UNCHANGED <<varsB, varsF, varsS, varsR, varsX>>

NextWriters ==
    \/ \E w \in Writers, i \in Ids, weight \in BehaviorWeights :
           process_user_behavior(w, i, weight)
    \/ \E w \in Writers, i \in Ids : compute_all_user_features(w, i)
    \/ \E w \in Writers : writer_get_hit(w)
    \/ \E w \in Writers : writer_get_miss(w)
    \/ \E w \in Writers : writer_get_error(w)
    \/ \E w \in Writers : writer_fill(w)
    \/ \E w \in Writers : writer_setex(w)
    \/ \E w \in Writers : writer_setex_error(w)

SpecWriters == InitServer /\ [][NextWriters]_vars

\* -------------------------------------------------------- SpecScheduler
\* OfflineFeatureService.start_scheduler / stop_scheduler / _run_scheduler
\* over the registry of the schedule module, which is one per process:
\* schedule.every() appends a job to schedule.jobs, schedule.run_pending()
\* runs every job whose next_run has come, schedule.clear() empties the
\* registry.  Time is counted in slots of one hour; the model's day has two
\* hours and its week three.

\* The period of a job, in slots
Period(name) ==
    CASE name \in {"content_features_hourly", "trending_contents_hourly"} -> 1
      [] name \in {"user_features_daily", "interaction_matrix_daily"} -> 2
      [] OTHER -> 3

\* Job._schedule_next_run at time t: every().hour.at / every().day.at give
\* the next aligned instant after t, every().week gives t plus one week
NextRun(name, t) ==
    IF name = "cleanup_weekly" THEN t + Period(name)
    ELSE ((t \div Period(name)) + 1) * Period(name)

\* The jobs _setup_schedules of instance s appends to the registry at time
\* t; the job functions are bound methods of s
SetupSchedules(s, t) ==
    << [name |-> "user_features_daily", owner |-> s,
        next_run |-> NextRun("user_features_daily", t)],
       [name |-> "content_features_hourly", owner |-> s,
        next_run |-> NextRun("content_features_hourly", t)],
       [name |-> "interaction_matrix_daily", owner |-> s,
        next_run |-> NextRun("interaction_matrix_daily", t)],
       [name |-> "trending_contents_hourly", owner |-> s,
        next_run |-> NextRun("trending_contents_hourly", t)],
       [name |-> "cleanup_weekly", owner |-> s,
        next_run |-> NextRun("cleanup_weekly", t)] >>

\* Job.should_run
ShouldRun(job) == slot >= job.next_run

\* The number of scheduler threads started so far
Started == services[1].started + services[2].started

\* start_scheduler on instance s (main.py's lifespan, or POST
\* /offline/scheduler/start on the instance of api/routes.py): a running
\* instance returns at once; otherwise the jobs are registered and a
\* scheduler thread is started
start_scheduler(s) ==
    /\ ~services[s].is_running
    /\ Started < MaxStarts
    /\ services' = [services EXCEPT ![s].is_running = TRUE,
                                    ![s].threads = @ + 1,
                                    ![s].started = @ + 1]
    /\ jobs' = jobs \o SetupSchedules(s, slot)
    /\ UNCHANGED <<slot, runs>>
    /\ UNCHANGED <<varsB, varsF, varsW, varsR, varsX>>

\* stop_scheduler on instance s: is_running is cleared, the join gives up
\* after 5 s while the thread sleeps 60 s, and schedule.clear() empties
\* the registry of the process
StopWithoutClear(s) ==
    /\ services[s].is_running \/ jobs # <<>>
    /\ services' = [services EXCEPT ![s].is_running = FALSE]
    /\ jobs' = jobs
    /\ UNCHANGED <<slot, runs>>
    /\ UNCHANGED <<varsB, varsF, varsW, varsR, varsX>>
stop_scheduler(s) ==
    /\ services[s].is_running \/ jobs # <<>>
    /\ services' = [services EXCEPT ![s].is_running = FALSE]
    /\ jobs' = <<>>
    /\ UNCHANGED <<slot, runs>>
    /\ UNCHANGED <<varsB, varsF, varsW, varsR, varsX>>

\* The times the job function of a name has run for a slot once
\* run_pending has gone through the registry: each due job runs its
\* function (which logs, and whose asyncio.create_task raises in the
\* scheduler thread and is caught) and is scheduled again
RunsAfterPending(k) ==
    runs[k] + Cardinality({j \in 1..Len(jobs) :
                              /\ ShouldRun(jobs[j])
                              /\ jobs[j].name = k[1]
                              /\ jobs[j].next_run = k[2]})

\* asyncio.create_task looks up the event loop running in the calling
\* thread: the thread of uvicorn runs one, a threading.Thread started by
\* start_scheduler runs none
HasRunningLoop(thread) == thread = "MainThread"

\* a job function called n times in a thread: "try:
\* asyncio.create_task(self.compute_...())  except Exception: log".  Where
\* no loop runs create_task raises RuntimeError, which is logged, and no
\* task exists
TasksCreated(thread, n) == IF HasRunningLoop(thread) THEN n ELSE 0

\* One turn of the loop of _run_scheduler in a thread of instance s whose
\* is_running is set: schedule.run_pending()
run_scheduler(s) ==
    /\ services[s].threads > 0
    /\ services[s].is_running
    /\ \E j \in 1..Len(jobs) : ShouldRun(jobs[j])
    /\ runs' = [k \in JobNames \X Slots |-> RunsAfterPending(k)]
    /\ jobs' = [j \in 1..Len(jobs) |->
                   IF ShouldRun(jobs[j])
                   THEN [jobs[j] EXCEPT
                            !.next_run = NextRun(jobs[j].name, slot)]
                   ELSE jobs[j]]
    /\ LET due == Cardinality({j \in 1..Len(jobs) : ShouldRun(jobs[j])})
       IN  services' = [services EXCEPT
               ![s].dispatched = @ + due,
               ![s].tasks_created = @ + TasksCreated("scheduler_thread", due)]
    /\ UNCHANGED slot
    /\ UNCHANGED <<varsB, varsF, varsW, varsR, varsX>>

\* A thread of instance s wakes up, finds is_running cleared and ends
run_scheduler_exit(s) ==
    /\ services[s].threads > 0
    /\ ~services[s].is_running
    /\ services' = [services EXCEPT ![s].threads = @ - 1]
    /\ UNCHANGED <<jobs, slot, runs>>
    /\ UNCHANGED <<varsB, varsF, varsW, varsR, varsX>>

\* The next slot begins
next_slot ==
    /\ slot < MaxSlots
    /\ slot' = slot + 1
    /\ UNCHANGED <<services, jobs, runs>>
    /\ UNCHANGED <<varsB, varsF, varsW, varsR, varsX>>

NextScheduler ==
    \/ \E s \in Services : start_scheduler(s)
    \/ \E s \in Services : stop_scheduler(s)
    \/ \E s \in Services : run_scheduler(s)
    \/ \E s \in Services : run_scheduler_exit(s)
    \/ next_slot

SpecScheduler == InitServer /\ [][NextScheduler]_vars

\* ------------------------------------------------------------ SpecFusion
\* FusionRerankingService.fuse_and_rerank (ranking-service/app/services/
\* fusion_reranking_service.py), one action per stage.  Floats are scaled
\* integers: an algorithm's score and the quality are in tenths, a
\* fusion_score in 1/240, a diversity score in 1/600, the boosts in
\* thousandths (rounded), a final_score in 1/120000.  A text is the set of
\* its words.
\* datetime.now() is the variable today, in ticks of twelve hours.

\* The keys of algorithm_results, in the order the caller inserted them
Algorithms == <<"collaborative_filtering", "content_based">>

\* self.algorithm_weights.get(algorithm_name, 0.1), in tenths
AlgorithmWeight(name) ==
    IF name \in DOMAIN algorithm_weights THEN algorithm_weights[name] ELSE 1

\* the number of algorithms of the request instead of the configured ones
NumRequestAlgorithms == Len(Algorithms)

\* len(self.algorithm_weights)
NumAlgorithmWeights == Cardinality(DOMAIN algorithm_weights)

\* business_rules of the configuration (the maximum age shortened to a day)
MinContentQualityScore == 6
MaxContentAgeDays == 1
BlockedCategories == {"spam"}
BlockedAuthors == {"blocked_author"}
MinUserRating == 3
RequireContentReview == TRUE

\* dedup_config, in tenths
SimilarityThreshold == 8
TitleSimilarityWeight == 4
ContentSimilarityWeight == 6

\* A recommended content as an algorithm returns it
BaseItem ==
    [content_id |-> 1, score |-> 9, title |-> {"a", "b"},
     summary |-> {"x", "y"}, quality_score |-> 8,
     publish_time |-> [kind |-> "naive", t |-> 0], category |-> "tech",
     author_id |-> "author_1", user_rating |-> 4,
     review_status |-> "approved", content_type |-> "article",
     view_count |-> 0]

\* The same title and summary under another content_id
NearDup == [BaseItem EXCEPT !.content_id = 2, !.score = 7]

\* Published long ago, with a timestamp that carries a UTC offset ("...Z")
OldAware ==
    [BaseItem EXCEPT !.content_id = 3, !.score = 8, !.title = {"c"},
                     !.summary = {"z"}, !.content_type = "video",
                     !.view_count = 99,
                     !.publish_time = [kind |-> "aware", t |-> 0 - 8]]

\* One day and a half old at tick 0, two days old at tick 1
Aging ==
    [BaseItem EXCEPT !.content_id = 4, !.score = 8, !.title = {"d"},
                     !.summary = {"w"}, !.category = "sports",
                     !.author_id = "author_2",
                     !.publish_time = [kind |-> "naive", t |-> 0 - 3]]

\* Not reviewed, of low quality, in a blocked category
Pending ==
    [BaseItem EXCEPT !.content_id = 5, !.title = {"e"}, !.summary = {"v"},
                     !.quality_score = 5, !.category = "spam",
                     !.review_status = "pending"]

\* view_count -1: math.log(view_count + 1) raises ValueError
Broken ==
    [BaseItem EXCEPT !.content_id = 6, !.score = 6, !.title = {"f"},
                     !.summary = {"u"}, !.publish_time = [kind |-> "none",
                                                          t |-> 0],
                     !.view_count = 0 - 1]

\* 'score': None under the content_id of BaseItem
Malformed == [BaseItem EXCEPT !.score = NoneVal, !.title = {"g"}]

Catalogue == {BaseItem, NearDup, OldAware, Aging, Pending, Broken, Malformed}

\* The lists of at most n contents
ListsUpTo(n) == UNION {[1..k -> Catalogue] : k \in 0..n}

\* context: None, or a dict whose user_active_hours holds the hour 0
NoContext == [present |-> FALSE, user_active_hours |-> {}]
Contexts == {NoContext, [present |-> TRUE, user_active_hours |-> {0}]}

\* A candidate of the pipeline: the content and the keys the stages add
\* (NoneVal: the key is absent)
Raw(content) ==
    [content |-> content, fusion_score |-> NoneVal,
     algorithm_coverage |-> NoneVal, final_score |-> NoneVal]

RawList(results) == [j \in 1..Len(results) |-> Raw(results[j])]

\* list.sort(key=..., reverse=True): descending and stable
SortDesc(seq, keys) ==
    LET n == Len(seq)
        Rank(i) == 1 + Cardinality({j \in 1..n :
                           \/ keys[j] > keys[i]
                           \/ keys[j] = keys[i] /\ j < i})
    IN  [p \in 1..n |-> seq[CHOOSE i \in 1..n : Rank(i) = p]]

RECURSIVE SumOver(_, _)
SumOver(S, f) ==
    IF S = {} THEN 0
    ELSE LET x == CHOOSE y \in S : TRUE
         IN  f[x] + SumOver(S \ {x}, f)

\* ------------------------------------------- 1. _fuse_algorithm_results
\* all_contents.keys(): the content ids in the order they are first seen
RECURSIVE DistinctIds(_, _)
DistinctIds(seq, seen) ==
    IF seq = <<>> THEN <<>>
    ELSE IF Head(seq).content_id \in seen
         THEN DistinctIds(Tail(seq), seen)
         ELSE <<Head(seq).content_id>>
              \o DistinctIds(Tail(seq), seen \cup {Head(seq).content_id})

\* all_contents[content_id]: the copy of the first content with the id
FirstContent(seq, id) ==
    seq[CHOOSE j \in 1..Len(seq) :
            /\ seq[j].content_id = id
            /\ \A k \in 1..(j - 1) : seq[k].content_id # id]

\* The place of the last content with the id in a list, 0 if there is none:
\* content_scores[content_id][algorithm_name] is overwritten by each one
LastIndex(results, id) ==
    LET J == {j \in 1..Len(results) : results[j].content_id = id}
    IN  IF J = {} THEN 0 ELSE CHOOSE j \in J : \A k \in J : k <= j

\* position_score = 1.0 / (idx + 1), in twelfths
PositionScore(idx) == 12 \div (idx + 1)

\* combined_score = original_score * position_score of an algorithm
CombinedScore(results, id) ==
    results[LastIndex(results, id)].score
        * PositionScore(LastIndex(results, id) - 1)

\* fusion_score and algorithm_coverage of a content id
Covering(ar, id) == {a \in 1..Len(ar) : LastIndex(ar[a], id) > 0}

FusionScore(ar, id) ==
    LET A == Covering(ar, id)
        weighted == SumOver(A, [a \in A |->
                        CombinedScore(ar[a], id)
                            * AlgorithmWeight(Algorithms[a])])
        total == SumOver(A, [a \in A |-> AlgorithmWeight(Algorithms[a])])
    IN  (2 * weighted) \div total
        + (8 * 3 * Cardinality(A)) \div NumAlgorithmWeights

\* original_score * position_score raises TypeError on a None score
FuseRaises(ar) ==
    \E a \in 1..Len(ar) : \E j \in 1..Len(ar[a]) : ar[a][j].score = NoneVal

FusedResults(ar) ==
    LET all == ar[1] \o ar[2]
        ids == DistinctIds(all, {})
        fused == [j \in 1..Len(ids) |->
                     [content |-> FirstContent(all, ids[j]),
                      fusion_score |-> FusionScore(ar, ids[j]),
                      algorithm_coverage |->
                          Cardinality(Covering(ar, ids[j])),
                      final_score |-> NoneVal]]
    IN  SortDesc(fused, [j \in 1..Len(fused) |-> fused[j].fusion_score])
\* ------------------------------------------------ 2. _deduplicate_results
\* _calculate_text_similarity: the Jaccard similarity of two texts as a
\* fraction <<numerator, denominator>>; 0.0 when either text is empty
TextSimilarity(text1, text2) ==
    IF text1 = {} \/ text2 = {} THEN <<0, 1>>
    ELSE <<Cardinality(text1 \cap text2), Cardinality(text1 \cup text2)>>

\* overall_similarity > similarity_threshold in _is_similar_to_existing
Similar(c, e) ==
    LET ts == TextSimilarity(c.title, e.title)
        cs == TextSimilarity(c.summary, e.summary)
    IN  TitleSimilarityWeight * ts[1] * cs[2]
            + ContentSimilarityWeight * cs[1] * ts[2]
        > SimilarityThreshold * ts[2] * cs[2]

IsSimilarToLast(c, existing) ==
    /\ existing # <<>>
    /\ Similar(c.content, existing[Len(existing)].content)

IsSimilarToExisting(c, existing) ==
    \E j \in 1..Len(existing) : Similar(c.content, existing[j].content)

RECURSIVE Deduplicate(_, _)
Deduplicate(results, deduplicated) ==
    IF results = <<>> THEN deduplicated
    ELSE LET c == Head(results)
             seen == {deduplicated[j].content.content_id :
                          j \in 1..Len(deduplicated)}
         IN  IF \/ c.content.content_id \in seen
                \/ IsSimilarToExisting(c, deduplicated)
             THEN Deduplicate(Tail(results), deduplicated)
             ELSE Deduplicate(Tail(results), Append(deduplicated, c))

\* ------------------------------------------------ 3. _apply_business_rules
\* (current_time - publish_datetime).days at current_time t
AgeDays(publish_time, t) == (t - publish_time.t) \div 2

\* The age check drops the content.  Without a publish_time there is no
\* check; current_time is naive, so subtracting a datetime that carries an
\* offset raises TypeError, which the age rule catches and logs
TooOld(publish_time, t) ==
    /\ publish_time.kind = "naive"
    /\ AgeDays(publish_time, t) > MaxContentAgeDays

\* The content passes every check of the loop
PassesRules(content, t) ==
    /\ content.quality_score >= MinContentQualityScore
    /\ ~TooOld(content.publish_time, t)
    /\ content.category \notin BlockedCategories
    /\ content.author_id \notin BlockedAuthors
    /\ content.user_rating >= MinUserRating
    /\ RequireContentReview => content.review_status = "approved"

FilteredResults(results, t) ==
    LET Keep(c) == PassesRules(c.content, t)
    IN  SelectSeq(results, Keep)

\* ----------------------------------------------------- 4. _ensure_diversity
\* A ratio count / total_selected, in sixtieths
Ratio60(count, total_selected) == (60 * count) \div total_selected

Max0(x) == IF x > 0 THEN x ELSE 0

\* _calculate_diversity_score, in 1/600; the counters are those
\* _update_diversity_counters has kept for the selected contents
DiversityScore(candidate, selected) ==
    IF selected = <<>> THEN 600
    ELSE LET c == candidate.content
             total_selected == Len(selected)
             S == 1..Len(selected)
             category_count == Cardinality({j \in S :
                 selected[j].content.category = c.category})
             content_type_count == Cardinality({j \in S :
                 selected[j].content.content_type = c.content_type})
             author_count == Cardinality({j \in S :
                 selected[j].content.author_id = c.author_id})
             time_bucket_count == Cardinality({j \in S :
                 /\ selected[j].content.publish_time.kind # "none"
                 /\ selected[j].content.publish_time.t = c.publish_time.t})
             score ==
                 (60 - Max0(Ratio60(category_count, total_selected) - 24)) * 3
                 + (60 - Ratio60(content_type_count, total_selected)) * 2
                 + (60 - Max0(Ratio60(author_count, total_selected) - 18)) * 2
                 + (IF c.publish_time.kind = "none" THEN 0
                    ELSE (60 - Ratio60(time_bucket_count, total_selected))
                         * 3)
         IN  Min(600, Max0(score))

\* the relevance alone, the diversity left out
RelevanceOnly(candidate, selected) == 35 * candidate.fusion_score

\* combined_score = 0.7 * relevance + 0.3 * diversity, in 1/12000
DiversityCombined(candidate, selected) ==
    35 * candidate.fusion_score + 6 * DiversityScore(candidate, selected)

\* best_idx: the first candidate with the greatest combined score
BestIdx(remaining, selected) ==
    CHOOSE i \in 1..Len(remaining) :
        /\ \A k \in 1..Len(remaining) :
               DiversityCombined(remaining[k], selected)
                   <= DiversityCombined(remaining[i], selected)
        /\ \A k \in 1..(i - 1) :
               DiversityCombined(remaining[k], selected)
                   < DiversityCombined(remaining[i], selected)

Without(seq, i) == SubSeq(seq, 1, i - 1) \o SubSeq(seq, i + 1, Len(seq))

\* The while loop of _ensure_diversity, up to the turn it returns at or
\* the first turn that selects nothing: best_score starts at -1, so a turn
\* in which no combined score exceeds -1 leaves best_candidate None,
\* appends and pops nothing, and every later turn is that turn again
RECURSIVE Greedy(_, _, _)
Greedy(diversified, remaining, target_size) ==
    IF /\ Len(diversified) < target_size
       /\ remaining # <<>>
       /\ \E k \in 1..Len(remaining) :
              DiversityCombined(remaining[k], diversified) > 0 - 12000
    THEN LET i == BestIdx(remaining, diversified)
         IN  Greedy(Append(diversified, remaining[i]),
                    Without(remaining, i), target_size)
    ELSE diversified

DiversifiedKeepingFirst(results, target_size) ==
    IF Len(results) <= target_size THEN results
    ELSE Greedy(<<Head(results)>>, results, target_size)

Diversified(results, target_size) ==
    IF Len(results) <= target_size THEN results
    ELSE Greedy(<<Head(results)>>, Tail(results), target_size)

\* --------------------------------------------- 5. _final_ranking_optimization
\* math.exp(-age_hours / 24) in thousandths, for an age in ticks
ExpDecay(age) ==
    CASE age <= 0 -> 1000
      [] age = 1 -> 607
      [] age = 2 -> 368
      [] age = 3 -> 223
      [] age = 4 -> 135
      [] age = 5 -> 82
      [] age = 6 -> 50
      [] age = 7 -> 30
      [] age = 8 -> 18
      [] OTHER -> 0

\* _calculate_freshness_boost at time t, in thousandths: 0.5 without a
\* publish_time and when datetime.now() - dt raises
FreshnessBoost(content, t) ==
    IF content.publish_time.kind = "naive"
    THEN ExpDecay(t - content.publish_time.t)
    ELSE 500

\* _calculate_popularity_boost raises on math.log(0)
PopularityRaises(content) == content.view_count + 1 <= 0

\* math.log(n) in thousandths, for the counts the contents carry
Log(n) == IF n = 100 THEN 4605 ELSE 0

\* _calculate_popularity_boost in thousandths: like_count, share_count and
\* comment_count are absent, max_popularity_score is 20
PopularityBoost(content) ==
    Min(1000, ((Log(content.view_count + 1) * 4) \div 10) \div 20)

\* current_hour of datetime.now()
CurrentHour(t) == (t % 2) * 12

\* _calculate_personalization_boost at time t, in tenths
PersonalizationBoost(context, t) ==
    IF context.present /\ CurrentHour(t) \in context.user_active_hours
    THEN 7
    ELSE 5

\* final_score, in 1/120000
FinalScore(c, context, t) ==
    300 * c.fusion_score
    + 18 * FreshnessBoost(c.content, t)
    + 18 * PopularityBoost(c.content)
    + 1200 * PersonalizationBoost(context, t)

FinalRaises(results) ==
    \E j \in 1..Len(results) : PopularityRaises(results[j].content)

UnsortedResults(results, context, t) ==
    [j \in 1..Len(results) |->
        [results[j] EXCEPT !.final_score =
                               FinalScore(results[j], context, t)]]

OptimizedResults(results, context, t) ==
    LET optimized == [j \in 1..Len(results) |->
            [results[j] EXCEPT !.final_score =
                                   FinalScore(results[j], context, t)]]
    IN  SortDesc(optimized,
                 [j \in 1..Len(optimized) |-> optimized[j].final_score])
\* ------------------------------------------------------ fuse_and_rerank
\* fuse_and_rerank is called with the arguments of request
fuse_and_rerank_call ==
    /\ fr.pc = "idle"
    /\ Len(outputs) < MaxRuns
    /\ fr' = [pc |-> "fuse", cur |-> <<>>, current_time |-> NoneVal]
    /\ UNCHANGED <<request, outputs, today, algorithm_weights>>
    /\ UNCHANGED <<varsB, varsF, varsW, varsS, varsX>>

UntruncatedFallback(results, target_size) == results

\* results[:target_size] of the fallback
TruncatedFallback(results, target_size) ==
    Take(results, Min(Len(results), target_size))

LastFallbackResults(ar, target_size) ==
    LET A == {a \in 1..Len(ar) : ar[a] # <<>>}
    IN  IF A = {} THEN <<>>
        ELSE TruncatedFallback(ar[CHOOSE a \in A : \A b \in A : a >= b],
                               target_size)

\* fallback_results: the first non-empty list of algorithm_results, cut
\* to target_size; empty when every list is empty
FallbackResults(ar, target_size) ==
    LET A == {a \in 1..Len(ar) : ar[a] # <<>>}
    IN  IF A = {} THEN <<>>
        ELSE TruncatedFallback(ar[CHOOSE a \in A : \A b \in A : a <= b],
                               target_size)

CaughtTypeErrorOnly(exc) == exc = "TypeError"

\* "except Exception" catches what a stage raises: TypeError and
\* ValueError are subclasses of Exception
Caught(exc) == exc \in {"TypeError", "ValueError"}

\* A stage raises exc: the handler returns the fallback, and what it does
\* not catch leaves fuse_and_rerank
Degraded(exc) ==
    /\ outputs' = Append(outputs,
           IF Caught(exc)
           THEN [path |-> "degraded",
                 items |-> RawList(FallbackResults(request.algorithm_results,
                                                   request.target_size)),
                 current_time |-> fr.current_time]
           ELSE [path |-> "raised", items |-> <<>>,
                 current_time |-> fr.current_time])
    /\ fr' = IdleFusion
    /\ UNCHANGED <<request, today, algorithm_weights>>
    /\ UNCHANGED <<varsB, varsF, varsW, varsS, varsX>>

\* 1. the algorithm results are fused
fuse_algorithm_results ==
    /\ fr.pc = "fuse"
    /\ ~FuseRaises(request.algorithm_results)
    /\ fr' = [fr EXCEPT !.pc = "dedup",
                        !.cur = FusedResults(request.algorithm_results)]
    /\ UNCHANGED <<request, outputs, today, algorithm_weights>>
    /\ UNCHANGED <<varsB, varsF, varsW, varsS, varsX>>

\* None * position_score raises TypeError
fuse_algorithm_results_raises ==
    /\ fr.pc = "fuse"
    /\ FuseRaises(request.algorithm_results)
    /\ Degraded("TypeError")

\* 2. exact and near duplicates are dropped
deduplicate_results ==
    /\ fr.pc = "dedup"
    /\ fr' = [fr EXCEPT !.pc = "rules", !.cur = Deduplicate(fr.cur, <<>>)]
    /\ UNCHANGED <<request, outputs, today, algorithm_weights>>
    /\ UNCHANGED <<varsB, varsF, varsW, varsS, varsX>>

\* 3. the business rules filter, with current_time = datetime.now()
apply_business_rules ==
    /\ fr.pc = "rules"
    /\ fr' = [fr EXCEPT !.pc = "diversity",
                        !.cur = FilteredResults(fr.cur, today),
                        !.current_time = today]
    /\ UNCHANGED <<request, outputs, today, algorithm_weights>>
    /\ UNCHANGED <<varsB, varsF, varsW, varsS, varsX>>

\* 4. the diversity rerank
ensure_diversity ==
    /\ fr.pc = "diversity"
    /\ fr' = [fr EXCEPT !.pc = "final",
                        !.cur = Diversified(fr.cur, request.target_size)]
    /\ UNCHANGED <<request, outputs, today, algorithm_weights>>
    /\ UNCHANGED <<varsB, varsF, varsW, varsS, varsX>>

\* final_results[:target_size]
Truncated(results, target_size) ==
    Take(results, Min(Len(results), target_size))

\* 5. the final ranking, and the return of final_results[:target_size]
final_ranking_optimization ==
    /\ fr.pc = "final"
    /\ ~FinalRaises(fr.cur)
    /\ outputs' = Append(outputs,
           [path |-> "normal",
            items |-> Truncated(OptimizedResults(fr.cur, request.context,
                                                 today),
                                request.target_size),
            current_time |-> fr.current_time])
    /\ fr' = IdleFusion
    /\ UNCHANGED <<request, today, algorithm_weights>>
    /\ UNCHANGED <<varsB, varsF, varsW, varsS, varsX>>

\* math.log(0) raises ValueError
final_ranking_optimization_raises ==
    /\ fr.pc = "final"
    /\ FinalRaises(fr.cur)
    /\ Degraded("ValueError")

\* Twelve hours pass
clock_tick ==
    /\ today < MaxClock
    /\ today' = today + 1
    /\ UNCHANGED <<request, fr, outputs, algorithm_weights>>
    /\ UNCHANGED <<varsB, varsF, varsW, varsS, varsX>>

\* A fusion service and the arguments its caller passes, each time the same
InitFusion ==
    /\ now = 0
    /\ max_batch_size = 1
    /\ model = 0
    /\ model_version = 0
    /\ objs = <<>>
    /\ ld = IdleLoader
    /\ pending = <<>>
    /\ reqs = <<>>
    /\ bp = IdleProcessor
    /\ batches = <<>>
    /\ cache = EmptyCache
    /\ tasks = IdleTasks
    /\ computations = NoComputations
    /\ writers = IdleWriters
    /\ services = StoppedServices
    /\ jobs = <<>>
    /\ slot = 0
    /\ runs = NoRuns
    /\ request \in [algorithm_results : ListsUpTo(MaxListLen) \X ListsUpTo(1),
                    target_size : 1..MaxTarget,
                    context : Contexts]
    /\ fr = IdleFusion
    /\ outputs = <<>>
    /\ today = 0
    /\ rk = IdleRanking
    /\ bg = IdleBackground
    /\ user_behaviors = NoBehaviors
    /\ algorithm_weights = DefaultAlgorithmWeights
    /\ manager = NoManager
    /\ feature_store = IdleFeatureStore

NextFusion ==
    \/ fuse_and_rerank_call
    \/ fuse_algorithm_results
    \/ fuse_algorithm_results_raises
    \/ deduplicate_results
    \/ apply_business_rules
    \/ ensure_diversity
    \/ final_ranking_optimization
    \/ final_ranking_optimization_raises
    \/ clock_tick

SpecFusion == InitFusion /\ [][NextFusion]_vars

\* ---------------------------------------------------------------------
\* SpecRanking: one POST /api/v1/ranking/rank through
\* RankingService.rank_candidates.  A candidate is its content_id; the
\* scores are in hundredths, the features in tenths.  hydration_failed
\* and scoring_failed record the errors logged for the candidate the
\* loop is at.
MaxCandidates == 3
MaxResults == 2
RankIds == {1, 2}

\* FeatureStore: 0 is a missing key; CorruptFeatures is a cached JSON
\* value that is truthy but not an object; any other value is the
\* content_hot_score (user_activity_score) of the cached features
CorruptFeatures == 0 - 2
CachedContentFeatures == {9}
CachedUserFeatures == 8

\* default_features of _get_user_features and _get_content_features:
\* user_activity_score 0.5, content_hot_score 0.5
DefaultUserFeatures == 5
DefaultContentFeatures == 5

\* the context dictionaries of a request: None, one with a device_type,
\* one whose timestamp is not a number
RankContexts == {"none", "device", "bad_timestamp"}

\* RankingService.model: 0 is None, else the weights of the loaded scorer
Scorers == 0..2

\* model.predict on the combined features of one candidate, for the
\* loaded weights w: a scorer that gives every input 0.42 and one that
\* grows with the content_hot_score
Prediction(w, user_features, content_features, context_features) ==
    CASE w = 1 -> 42
      [] w = 2 -> 9 * content_features + user_features + context_features

\* RealTimeFeatureProcessor.process_context_features: device_mapping
\* sends "mobile" to 0, "tablet" to 1
ProcessContextFeatures(context) == IF context = "device" THEN 1 ELSE 0

\* datetime.fromtimestamp of a value that is not a number raises
ProcessContextRaises(context) == context = "bad_timestamp"

\* [{**candidate, 'ranking_score': 0.0} for candidate in candidates]
NoDefaultScored(candidates) == <<>>
DefaultScored(candidates) ==
    [j \in 1..Len(candidates) |->
        [content_id |-> candidates[j], ranking_score |-> 0]]

\* sorted(scored_candidates, key=ranking_score, reverse=True)
RankedCandidates(scored) ==
    SortDesc(scored, [j \in 1..Len(scored) |-> scored[j].ranking_score])

\* the handler of POST /api/v1/ranking/rank receives a request and calls
\* rank_candidates, which returns [] for no candidates
rank_candidates_empty ==
    /\ rk.pc = "idle"
    /\ rk.candidates = <<>>
    /\ rk' = [rk EXCEPT !.pc = "returned", !.ranked = <<>>]
    /\ UNCHANGED <<varsA, varsI>>

\* rank_candidates up to the loop: _get_user_features (a hit, a miss that
\* caches the defaults, or an error that gives the defaults), then the
\* context features
rank_candidates_begin ==
    /\ rk.pc = "idle"
    /\ rk.candidates # <<>>
    /\ ~ProcessContextRaises(rk.context)
    /\ \E failed \in BOOLEAN :
          LET hit == ~failed /\ rk.user_store # 0
              miss == ~failed /\ rk.user_store = 0
          IN  rk' = [rk EXCEPT
                  !.pc = "candidate",
                  !.user_features = IF hit THEN rk.user_store
                                    ELSE DefaultUserFeatures,
                  !.user_store = IF miss THEN DefaultUserFeatures
                                 ELSE rk.user_store,
                  !.context_features =
                      IF rk.context = "none" THEN 0
                      ELSE ProcessContextFeatures(rk.context)]
    /\ UNCHANGED <<varsA, varsI>>

\* process_context_features raises: the outer handler returns the
\* candidates as they came, each with the score 0.0
rank_candidates_failed ==
    /\ rk.pc = "idle"
    /\ rk.candidates # <<>>
    /\ ProcessContextRaises(rk.context)
    /\ \E failed \in BOOLEAN :
          rk' = [rk EXCEPT
              !.pc = "returned",
              !.user_store = IF ~failed /\ rk.user_store = 0
                             THEN DefaultUserFeatures ELSE rk.user_store,
              !.ranked = DefaultScored(rk.candidates)]
    /\ UNCHANGED <<varsA, varsI>>

\* the content_id of the candidate the loop is at
Candidate == rk.candidates[Len(rk.scored) + 1]

\* _get_content_features finds cached features that are an object
get_content_features_hit ==
    /\ rk.pc = "candidate"
    /\ rk.store[Candidate] \in CachedContentFeatures
                               \cup {DefaultContentFeatures}
    /\ rk' = [rk EXCEPT !.pc = "predict",
                        !.content_features = rk.store[Candidate]]
    /\ UNCHANGED <<varsA, varsI>>

\* _get_content_features finds nothing, caches the defaults and returns
\* them
get_content_features_miss ==
    /\ rk.pc = "candidate"
    /\ rk.store[Candidate] = 0
    /\ rk' = [rk EXCEPT !.pc = "predict",
                        !.content_features = DefaultContentFeatures,
                        !.store[Candidate] = DefaultContentFeatures]
    /\ UNCHANGED <<varsA, varsI>>

\* the feature store raises: _get_content_features logs it and returns
\* the defaults
get_content_features_error ==
    /\ rk.pc = "candidate"
    /\ rk' = [rk EXCEPT !.pc = "predict", !.hydration_failed = TRUE,
                        !.content_features = DefaultContentFeatures]
    /\ UNCHANGED <<varsA, varsI>>

\* the cached value is not a mapping: {**user_features,
\* **content_features, ...} raises and the handler of the loop appends
\* the candidate with the score 0.0
combine_features_raises ==
    /\ rk.pc = "candidate"
    /\ rk.store[Candidate] = CorruptFeatures
    /\ rk' = [rk EXCEPT !.pc = "next", !.hydration_failed = TRUE,
                        !.scored = Append(rk.scored,
                 [content_id |-> Candidate, ranking_score |-> 0])]
    /\ UNCHANGED <<varsA, varsI>>

\* _predict_score returns the prediction of the scorer, which the loop
\* appends with the candidate
predict_score ==
    /\ rk.pc = "predict"
    /\ rk.scorer # 0
    /\ rk' = [rk EXCEPT !.pc = "next", !.scored = Append(rk.scored,
                 [content_id |-> Candidate,
                  ranking_score |-> Prediction(rk.scorer,
                      rk.user_features, rk.content_features,
                      rk.context_features)])]
    /\ UNCHANGED <<varsA, varsI>>

\* self.model is None, or the pipeline or the scorer raises:
\* _predict_score logs it and returns 0.0
predict_score_error ==
    /\ rk.pc = "predict"
    /\ rk' = [rk EXCEPT !.pc = "next", !.scoring_failed = TRUE,
                        !.scored = Append(rk.scored,
                 [content_id |-> Candidate, ranking_score |-> 0])]
    /\ UNCHANGED <<varsA, varsI>>

\* for candidate in candidates
next_candidate ==
    /\ rk.pc = "next"
    /\ Len(rk.scored) < Len(rk.candidates)
    /\ rk' = [rk EXCEPT !.pc = "candidate", !.hydration_failed = FALSE,
                        !.scoring_failed = FALSE]
    /\ UNCHANGED <<varsA, varsI>>

\* the end of the loop: sort, count the request, return
UnsortedCandidates ==
    /\ rk.pc = "next"
    /\ Len(rk.scored) = Len(rk.candidates)
    /\ rk' = [rk EXCEPT !.pc = "returned",
                        !.ranked = rk.scored,
                        !.prediction_count = rk.prediction_count + 1]
    /\ UNCHANGED <<varsA, varsI>>
rank_candidates_return ==
    /\ rk.pc = "next"
    /\ Len(rk.scored) = Len(rk.candidates)
    /\ rk' = [rk EXCEPT !.pc = "returned",
                        !.ranked = RankedCandidates(rk.scored),
                        !.prediction_count = rk.prediction_count + 1]
    /\ UNCHANGED <<varsA, varsI>>

\* the handler cuts the list to max_results and answers 200
rank_response ==
    /\ rk.pc = "returned"
    /\ rk' = [rk EXCEPT !.pc = "done", !.status = 200,
                        !.ranked_items =
                            Take(rk.ranked,
                                 Min(rk.max_results, Len(rk.ranked)))]
    /\ UNCHANGED <<varsA, varsI>>

RECURSIVE CandidateLists(_)
CandidateLists(n) ==
    IF n = 0 THEN {<<>>}
    ELSE CandidateLists(n - 1)
         \cup {Append(l, i) : l \in {c \in CandidateLists(n - 1) :
                                        Len(c) = n - 1},
                              i \in RankIds}

\* a started ranking service receives one request
InitRanking ==
    /\ now = 0
    /\ max_batch_size = 1
    /\ model = 0
    /\ model_version = 0
    /\ objs = <<>>
    /\ ld = IdleLoader
    /\ pending = <<>>
    /\ reqs = <<>>
    /\ bp = IdleProcessor
    /\ batches = <<>>
    /\ cache = EmptyCache
    /\ tasks = IdleTasks
    /\ computations = NoComputations
    /\ writers = IdleWriters
    /\ services = StoppedServices
    /\ jobs = <<>>
    /\ slot = 0
    /\ runs = NoRuns
    /\ request = NoRequest
    /\ fr = IdleFusion
    /\ outputs = <<>>
    /\ today = 0
    /\ bg = IdleBackground
    /\ user_behaviors = NoBehaviors
    /\ algorithm_weights = DefaultAlgorithmWeights
    /\ \E candidates \in CandidateLists(MaxCandidates),
          context \in RankContexts,
          max_results \in 1..MaxResults,
          scorer \in Scorers,
          user_store \in {0, CachedUserFeatures},
          store \in [RankIds -> {0, CorruptFeatures}
                                \cup CachedContentFeatures] :
          rk = [IdleRanking EXCEPT
                   !.candidates = candidates, !.context = context,
                   !.max_results = max_results, !.scorer = scorer,
                   !.user_store = user_store, !.store = store]
    /\ manager = NoManager
    /\ feature_store = IdleFeatureStore

NextRanking ==
    \/ rank_candidates_empty
    \/ rank_candidates_begin
    \/ rank_candidates_failed
    \/ get_content_features_hit
    \/ get_content_features_miss
    \/ get_content_features_error
    \/ combine_features_raises
    \/ predict_score
    \/ predict_score_error
    \/ next_candidate
    \/ rank_candidates_return
    \/ rank_response

SpecRanking == InitRanking /\ [][NextRanking]_vars

\* ---------------------------------------------------------------------
\* SpecIngest: POST /behavior.  The route queues two background tasks,
\* UserFeatureService.process_user_behavior (the patch of the cached
\* features, run by a writer of SpecWriters) and
\* FeatureStorageService.store_user_behavior_to_clickhouse (the append to
\* the behavior log); BackgroundTasks runs them in that order after the
\* response, and a task that raises ends the run.

\* behavior_weights[ActionType.VIEW]
ViewWeight == 1

\* the route receives a VIEW of user i: both tasks are added and the
\* response is returned; the requests are numbered in the order they
\* arrive
post_behavior(w, i) ==
    /\ bg[w].pc = "none"
    /\ \A v \in Writers : v < w => bg[v].pc # "none"
    /\ bg' = [bg EXCEPT ![w] = [pc |-> "queued", id |-> i,
                                weight |-> ViewWeight,
                                store_failed |-> FALSE]]
    /\ UNCHANGED <<varsA, varsK, user_behaviors>>

\* the first task starts: process_user_behavior(behavior) awaits the GET
\* of get_user_features
background_patch(w) ==
    /\ bg[w].pc = "queued"
    /\ writers[w].pc = "idle"
    /\ writers' = [writers EXCEPT ![w] =
           [pc |-> "get", kind |-> "patch", id |-> bg[w].id,
            arg |-> bg[w].weight, val |-> 0, failed |-> FALSE]]
    /\ bg' = [bg EXCEPT ![w].pc = "patching"]
    /\ UNCHANGED <<varsB, varsF, varsS, varsR, varsK, varsM, varsH,
                   user_behaviors>>

\* whether process_user_behavior lets an exception out: its whole body is
\* in a try whose 'except Exception' only logs
FailedPatchRaises(w) == writers[w].failed
PatchRaises(w) == FALSE

\* the first task has returned: BackgroundTasks goes on to the second
\* task unless the first one raised
background_next(w) ==
    /\ bg[w].pc = "patching"
    /\ writers[w].pc = "done"
    /\ bg' = [bg EXCEPT ![w].pc =
                 IF PatchRaises(w) THEN "aborted" ELSE "store"]
    /\ UNCHANGED <<varsA, varsK, user_behaviors>>

\* the row store_user_behavior_to_clickhouse inserts for a request
BehaviorRow(w) ==
    [request |-> w, user_id |-> bg[w].id, action_weight |-> bg[w].weight]

\* the second task: INSERT INTO user_behaviors
store_user_behavior_to_clickhouse(w) ==
    /\ bg[w].pc = "store"
    /\ user_behaviors' = user_behaviors \cup {BehaviorRow(w)}
    /\ bg' = [bg EXCEPT ![w].pc = "done"]
    /\ UNCHANGED <<varsA, varsK>>

\* ClickHouse raises: the task logs it and returns False
store_user_behavior_error(w) ==
    /\ bg[w].pc = "store"
    /\ bg' = [bg EXCEPT ![w].pc = "done", ![w].store_failed = TRUE]
    /\ UNCHANGED <<varsA, varsK, user_behaviors>>

NextIngest ==
    \/ \E w \in Writers, i \in Ids : post_behavior(w, i)
    \/ \E w \in Writers : background_patch(w)
    \/ \E w \in Writers : writer_get_hit(w)
    \/ \E w \in Writers : writer_get_miss(w)
    \/ \E w \in Writers : writer_get_error(w)
    \/ \E w \in Writers : writer_fill(w)
    \/ \E w \in Writers : writer_setex(w)
    \/ \E w \in Writers : writer_setex_error(w)
    \/ \E w \in Writers : background_next(w)
    \/ \E w \in Writers : store_user_behavior_to_clickhouse(w)
    \/ \E w \in Writers : store_user_behavior_error(w)

SpecIngest == InitServer /\ [][NextIngest]_vars

\* ---------------------------------------------------------------------
\* SpecStages: the fusion stage and the diversity stage of a
\* FusionRerankingService called on their own, as the unit tests call
\* them, on a service built with the default weights or with two
\* algorithms of weight 0.5 each, and POST /fusion/config merging new
\* weights into it.

\* algorithm_weights of a configuration of two algorithms, 0.5 / 0.5
TwoEqualWeights ==
    [name \in {"collaborative_filtering", "content_based"} |-> 5]

\* algorithm_weights.update(new_config['algorithm_weights'])
UpdatedWeights(new) ==
    [name \in DOMAIN algorithm_weights \cup DOMAIN new |->
        IF name \in DOMAIN new THEN new[name] ELSE algorithm_weights[name]]

\* The recorded call of _ensure_diversity is in its while loop for good:
\* with more candidates than target_size it has selected fewer than
\* target_size, which the loop only leaves standing when it has reached a
\* turn that selects nothing
InLoop(call) ==
    /\ call.path = "diversity"
    /\ Len(call.args) > call.target_size
    /\ Len(call.items) < call.target_size

Spinning == \E k \in 1..Len(outputs) : InLoop(outputs[k])

\* update_config({'algorithm_weights': new})
update_config(new) ==
    /\ ~Spinning
    /\ UpdatedWeights(new) # algorithm_weights
    /\ algorithm_weights' = UpdatedWeights(new)
    /\ UNCHANGED <<request, fr, outputs, today>>
    /\ UNCHANGED <<varsB, varsF, varsW, varsS, varsX>>

\* Two contents an algorithm scores 0.8
ItemX == [BaseItem EXCEPT !.content_id = 1, !.score = 8]
ItemY == [BaseItem EXCEPT !.content_id = 2, !.score = 8, !.title = {"c"},
                          !.summary = {"z"}]

\* The result list of one algorithm: nothing, or one of the two contents
\* at rank 1
RankOneLists == {<<>>, <<ItemX>>, <<ItemY>>}

\* _fuse_algorithm_results(algorithm_results) is called and returns
call_fuse_algorithm_results(ar) ==
    /\ Len(outputs) < MaxRuns
    /\ ~Spinning
    /\ ~FuseRaises(ar)
    /\ outputs' = Append(outputs,
           [path |-> "fuse", items |-> FusedResults(ar),
            current_time |-> NoneVal, args |-> ar,
            weights |-> algorithm_weights])
    /\ UNCHANGED <<request, fr, today, algorithm_weights>>
    /\ UNCHANGED <<varsB, varsF, varsW, varsS, varsX>>

\* The authors of ten contents
AuthorNames ==
    <<"author_1", "author_2", "author_3", "author_4", "author_5",
      "author_6", "author_7", "author_8", "author_9", "author_10">>

\* The k-th of ten fused candidates, eight of category tech with a
\* fusion_score of 0.9 and two of category sports with 0.7, each
\* candidate 1/240 below the one before it in its category.  The tech
\* contents are articles of one time bucket, by one author or by one
\* each; the sports contents have the author, the content type and the
\* time bucket given.
ScenarioCandidate(k, one_author, sports_author, sports_type, sports_time) ==
    IF k <= 8
    THEN [content |->
              [BaseItem EXCEPT !.content_id = k, !.category = "tech",
                  !.author_id = IF one_author THEN AuthorNames[1]
                                ELSE AuthorNames[k],
                  !.content_type = "article",
                  !.publish_time = [kind |-> "naive", t |-> 0]],
          fusion_score |-> 216 - (k - 1),
          algorithm_coverage |-> 1, final_score |-> NoneVal]
    ELSE [content |->
              [BaseItem EXCEPT !.content_id = k, !.category = "sports",
                  !.author_id = IF sports_author = "own"
                                THEN AuthorNames[k] ELSE AuthorNames[1],
                  !.content_type = sports_type,
                  !.publish_time = [kind |-> "naive", t |-> sports_time]],
          fusion_score |-> 168 - (k - 9),
          algorithm_coverage |-> 1, final_score |-> NoneVal]

\* The lists of ten candidates, in the order the fusion stage leaves them
DiversityScenarios ==
    {[k \in 1..10 |-> ScenarioCandidate(k, one_author, sports_author,
                                        sports_type, sports_time)] :
        one_author \in BOOLEAN, sports_author \in {"own", "shared"},
        sports_type \in {"article", "video"}, sports_time \in {0, 0 - 1}}

\* Lists of three fused candidates alike in category, author, content
\* type and publish time, in the order the fusion stage leaves them, by
\* fusion_score downwards: 0.9 ahead of 0.5 and 0.4, of two of 0.5, or of
\* two of -2.0
SmallScenarios ==
    {[k \in 1..3 |->
         [content |-> [BaseItem EXCEPT !.content_id = ids[k]],
          fusion_score |-> scores[k],
          algorithm_coverage |-> 1, final_score |-> NoneVal]] :
        ids \in {<<3, 2, 1>>, <<1, 2, 3>>},
        scores \in {<<216, 120, 96>>, <<216, 120, 120>>,
                    <<216, 0 - 480, 0 - 480>>}}

\* _ensure_diversity(results, target_size) is called and returns the
\* items selected, or never returns: the coroutine then holds the event
\* loop in its while loop, with the items selected so far
call_ensure_diversity(results, target_size) ==
    /\ Len(outputs) < MaxRuns
    /\ ~Spinning
    /\ outputs' = Append(outputs,
           [path |-> "diversity",
            items |-> Diversified(results, target_size),
            current_time |-> NoneVal, args |-> results,
            target_size |-> target_size])
    /\ UNCHANGED <<request, fr, today, algorithm_weights>>
    /\ UNCHANGED <<varsB, varsF, varsW, varsS, varsX>>

\* Lists of fused results for the business rules filter: a content that
\* passes every rule, and with or without it a content that fails the
\* review rule alone
RulesScenarios ==
    LET Fused(content) ==
            [content |-> content, fusion_score |-> 216,
             algorithm_coverage |-> 1, final_score |-> NoneVal]
        unreviewed == [BaseItem EXCEPT !.content_id = 2, !.title = {"c"},
                                    !.summary = {"z"},
                                    !.review_status = "pending"]
    IN  {<<Fused(BaseItem)>>, <<Fused(unreviewed)>>,
         <<Fused(BaseItem), Fused(unreviewed)>>}

\* _apply_business_rules(results, user_id) is called and returns; its
\* filter_stats is a local of the call, logged and dropped at the return
call_apply_business_rules(results) ==
    /\ Len(outputs) < MaxRuns
    /\ ~Spinning
    /\ outputs' = Append(outputs,
           [path |-> "rules", items |-> FilteredResults(results, today),
            current_time |-> today, args |-> results])
    /\ UNCHANGED <<request, fr, today, algorithm_weights>>
    /\ UNCHANGED <<varsB, varsF, varsW, varsS, varsX>>

\* get_service_config(): what the service exposes of itself, the four
\* sections of its configuration
get_service_config ==
    [algorithm_weights |-> algorithm_weights,
     diversity_config |->
         [category_diversity_weight |-> 3,
          content_type_diversity_weight |-> 2,
          author_diversity_weight |-> 2, time_diversity_weight |-> 3,
          max_same_category_ratio |-> 4, max_same_author_ratio |-> 3],
     business_rules |->
         [min_content_quality_score |-> MinContentQualityScore,
          max_content_age_days |-> MaxContentAgeDays,
          blocked_categories |-> BlockedCategories,
          blocked_authors |-> BlockedAuthors,
          min_user_rating |-> MinUserRating,
          require_content_review |-> RequireContentReview],
     dedup_config |->
         [similarity_threshold |-> SimilarityThreshold,
          title_similarity_weight |-> TitleSimilarityWeight,
          content_similarity_weight |-> ContentSimilarityWeight]]

\* A fusion service built with the default configuration or with one of
\* two algorithms
InitStages ==
    /\ now = 0
    /\ max_batch_size = 1
    /\ model = 0
    /\ model_version = 0
    /\ objs = <<>>
    /\ ld = IdleLoader
    /\ pending = <<>>
    /\ reqs = <<>>
    /\ bp = IdleProcessor
    /\ batches = <<>>
    /\ cache = EmptyCache
    /\ tasks = IdleTasks
    /\ computations = NoComputations
    /\ writers = IdleWriters
    /\ services = StoppedServices
    /\ jobs = <<>>
    /\ slot = 0
    /\ runs = NoRuns
    /\ request = NoRequest
    /\ fr = IdleFusion
    /\ outputs = <<>>
    /\ today = 0
    /\ rk = IdleRanking
    /\ bg = IdleBackground
    /\ user_behaviors = NoBehaviors
    /\ algorithm_weights \in {DefaultAlgorithmWeights, TwoEqualWeights}
    /\ manager = NoManager
    /\ feature_store = IdleFeatureStore

NextStages ==
    \/ update_config(TwoEqualWeights)
    \/ \E ar \in RankOneLists \X RankOneLists :
           call_fuse_algorithm_results(ar)
    \/ \E results \in DiversityScenarios : call_ensure_diversity(results, 5)
    \/ \E results \in SmallScenarios : call_ensure_diversity(results, 2)
    \/ \E results \in RulesScenarios : call_apply_business_rules(results)

SpecStages == InitStages /\ [][NextStages]_vars

\* ---------------------------------------------------------------------
\* SpecManager: ModelManager, model_server.py.  register_model,
\* start_model_server and stop_model_server are called one after another
\* on the names of ModelNames; ModelServer.load_model of a new server
\* returns True or False, or the server cannot be built.

\* The calls made on the manager
MaxManagerCalls == 4

\* register_model(model_name, model_path)
register_model(name) ==
    /\ manager.calls < MaxManagerCalls
    /\ name \notin manager.model_configs
    /\ manager' = [manager EXCEPT
           !.model_configs = @ \cup {name},
           !.calls = @ + 1,
           !.result = [op |-> "register", name |-> name, value |-> TRUE]]
    /\ UNCHANGED <<varsB, varsF, varsW, varsS, varsR, varsK, varsI, varsH>>

\* start_model_server storing the new server whatever load_model returned
start_model_server_keeping_failed(name, outcome) ==
    /\ manager.calls < MaxManagerCalls
    /\ manager' =
           IF name \notin manager.model_configs
           THEN [manager EXCEPT
                    !.calls = @ + 1,
                    !.result = [op |-> "start", name |-> name,
                                value |-> FALSE]]
           ELSE IF manager.active_servers[name] # 0
           THEN [manager EXCEPT
                    !.calls = @ + 1,
                    !.result = [op |-> "start", name |-> name,
                                value |-> TRUE]]
           ELSE IF outcome = "raised"
           THEN [manager EXCEPT
                    !.calls = @ + 1,
                    !.result = [op |-> "start", name |-> name,
                                value |-> FALSE]]
           ELSE [manager EXCEPT
                    !.servers = Append(@, [name |-> name,
                                           loaded |-> outcome = "loaded"]),
                    !.active_servers[name] = Len(manager.servers) + 1,
                    !.calls = @ + 1,
                    !.result = [op |-> "start", name |-> name,
                                value |-> outcome = "loaded"]]
    /\ UNCHANGED <<varsB, varsF, varsW, varsS, varsR, varsK, varsI, varsH>>

\* start_model_server(model_name), where building the server and its
\* load_model end as outcome says: "loaded", "not_loaded" (load_model
\* returned False) or "raised"
start_model_server(name, outcome) ==
    /\ manager.calls < MaxManagerCalls
    /\ manager' =
           IF name \notin manager.model_configs
           THEN [manager EXCEPT
                    !.calls = @ + 1,
                    !.result = [op |-> "start", name |-> name,
                                value |-> FALSE]]
           ELSE IF manager.active_servers[name] # 0
           THEN [manager EXCEPT
                    !.calls = @ + 1,
                    !.result = [op |-> "start", name |-> name,
                                value |-> TRUE]]
           ELSE IF outcome = "raised"
           THEN [manager EXCEPT
                    !.calls = @ + 1,
                    !.result = [op |-> "start", name |-> name,
                                value |-> FALSE]]
           ELSE [manager EXCEPT
                    !.servers = Append(@, [name |-> name,
                                           loaded |-> outcome = "loaded"]),
                    !.active_servers[name] =
                        IF outcome = "loaded" THEN Len(manager.servers) + 1
                        ELSE @,
                    !.calls = @ + 1,
                    !.result = [op |-> "start", name |-> name,
                                value |-> outcome = "loaded"]]
    /\ UNCHANGED <<varsB, varsF, varsW, varsS, varsR, varsK, varsI, varsH>>

\* stop_model_server(model_name), where server.shutdown() returns or raises
stop_model_server(name, raises) ==
    /\ manager.calls < MaxManagerCalls
    /\ manager' =
           IF manager.active_servers[name] = 0
           THEN [manager EXCEPT
                    !.calls = @ + 1,
                    !.result = [op |-> "stop", name |-> name,
                                value |-> TRUE]]
           ELSE IF raises
           THEN [manager EXCEPT
                    !.calls = @ + 1,
                    !.result = [op |-> "stop", name |-> name,
                                value |-> FALSE]]
           ELSE [manager EXCEPT
                    !.active_servers[name] = 0,
                    !.calls = @ + 1,
                    !.result = [op |-> "stop", name |-> name,
                                value |-> TRUE]]
    /\ UNCHANGED <<varsB, varsF, varsW, varsS, varsR, varsK, varsI, varsH>>

NextManager ==
    \/ \E name \in ModelNames : register_model(name)
    \/ \E name \in ModelNames :
           \E outcome \in {"loaded", "not_loaded", "raised"} :
               start_model_server(name, outcome)
    \/ \E name \in ModelNames : \E raises \in BOOLEAN :
           stop_model_server(name, raises)

SpecManager == InitServer /\ [][NextManager]_vars

\* ---------------------------------------------------------------------
\* SpecHydration: the coroutines of RankingService on its FeatureStore.
\* _get_user_features and _get_content_features of a rank request, and
\* the update_user_features and update_content_features background
\* tasks of POST /api/v1/ranking/features/update, run on one event loop
\* and give way to each other at every await of the redis client.

\* default_features of the key's kind
default_features(k) ==
    IF k[1] = "user_features" THEN <<DefaultUserFeatures>>
    ELSE <<DefaultContentFeatures>>

\* features cached before the requests arrive
CachedFeatures(k) ==
    IF k[1] = "user_features" THEN <<CachedUserFeatures>> ELSE <<9>>

\* the raw scores of a features/update request, in tenths
RawFeatures == {3, 9}

\* RealTimeFeatureProcessor.process_*_features: the fitted scaler of the
\* pipeline, (x - mean) / scale with mean 0.5 and scale 0.2, in tenths
ProcessFeatures(raw) == <<((raw - 5) * 10) \div 2>>

\* _get_user_features / _get_content_features up to its first await:
\* "await self.feature_store.get_*_features(id)" reads the key.  Cached
\* features are returned; on a miss the coroutine goes on to cache the
\* defaults; when redis raises the defaults are returned
get_features(k, raises) ==
    /\ feature_store.lookup[k].pc = "none"
    /\ feature_store' = [feature_store EXCEPT !.lookup[k] =
                 IF raises
                 THEN [pc |-> "done", missed |-> FALSE,
                       result |-> default_features(k)]
                 ELSE IF feature_store.redis[k] # <<>>
                 THEN [pc |-> "done", missed |-> FALSE,
                       result |-> feature_store.redis[k]]
                 ELSE [pc |-> "setex", missed |-> TRUE, result |-> <<>>]]
    /\ UNCHANGED <<varsB, varsF, varsW, varsS, varsR, varsK, varsI, varsM>>

\* after the miss: "await self.feature_store.set_*_features(id,
\* default_features)" writes the defaults with setex, whatever the key
\* holds by now, and the defaults are returned (also when setex raises)
get_features_set_default(k, raises) ==
    /\ feature_store.lookup[k].pc = "setex"
    /\ feature_store' = [feature_store EXCEPT
                 !.redis[k] = IF raises THEN feature_store.redis[k]
                              ELSE default_features(k),
                 !.lookup[k].pc = "done",
                 !.lookup[k].result = default_features(k)]
    /\ UNCHANGED <<varsB, varsF, varsW, varsS, varsR, varsK, varsI, varsM>>

\* update_user_features / update_content_features up to its await: the
\* features are processed; a pipeline that raises ends the task
update_features(k, raw, raises) ==
    /\ feature_store.update[k].pc = "none"
    /\ feature_store' = [feature_store EXCEPT !.update[k] =
                 IF raises THEN [pc |-> "failed", processed |-> <<>>]
                 ELSE [pc |-> "setex",
                       processed |-> ProcessFeatures(raw)]]
    /\ UNCHANGED <<varsB, varsF, varsW, varsS, varsR, varsK, varsI, varsM>>

\* "await self.feature_store.set_*_features(id, processed_features)"
update_features_set(k, raises) ==
    /\ feature_store.update[k].pc = "setex"
    /\ feature_store' = [feature_store EXCEPT
                 !.redis[k] = IF raises THEN feature_store.redis[k]
                              ELSE feature_store.update[k].processed,
                 !.update[k].pc = IF raises THEN "failed" ELSE "done"]
    /\ UNCHANGED <<varsB, varsF, varsW, varsS, varsR, varsK, varsI, varsM>>

\* a ranking service whose FeatureStore holds some of the keys
InitHydration ==
    /\ now = 0
    /\ max_batch_size = 1
    /\ model = 0
    /\ model_version = 0
    /\ objs = <<>>
    /\ ld = IdleLoader
    /\ pending = <<>>
    /\ reqs = <<>>
    /\ bp = IdleProcessor
    /\ batches = <<>>
    /\ cache = EmptyCache
    /\ tasks = IdleTasks
    /\ computations = NoComputations
    /\ writers = IdleWriters
    /\ services = StoppedServices
    /\ jobs = <<>>
    /\ slot = 0
    /\ runs = NoRuns
    /\ request = NoRequest
    /\ fr = IdleFusion
    /\ outputs = <<>>
    /\ today = 0
    /\ rk = IdleRanking
    /\ bg = IdleBackground
    /\ user_behaviors = NoBehaviors
    /\ algorithm_weights = DefaultAlgorithmWeights
    /\ manager = NoManager
    /\ \E present \in SUBSET FeatureKeys :
          feature_store = [IdleFeatureStore EXCEPT
                   !.redis = [k \in FeatureKeys |->
                                 IF k \in present THEN CachedFeatures(k)
                                 ELSE <<>>]]

NextHydration ==
    \/ \E k \in FeatureKeys, raises \in BOOLEAN : get_features(k, raises)
    \/ \E k \in FeatureKeys, raises \in BOOLEAN :
          get_features_set_default(k, raises)
    \/ \E k \in FeatureKeys, raw \in RawFeatures, raises \in BOOLEAN :
          update_features(k, raw, raises)
    \/ \E k \in FeatureKeys, raises \in BOOLEAN :
          update_features_set(k, raises)

SpecHydration == InitHydration /\ [][NextHydration]_vars

\* =================================================================== claims
Positions(b) == 1..Min(Len(batches[b].reqs), Len(batches[b].scores))

\* The age of request r: how long ago it was enqueued
Age(r) == now - reqs[r].timestamp

\* C1: within one batch the scores map back to the submitters by submission
\* order: the request at position i of a scored batch holds the i-th score,
\* which is the scorer's output for that request's own features, and a
\* caller woken by its event returns exactly that value.
BatchOrderPreserved ==
    \A b \in 1..Len(batches) :
        batches[b].status = "done" =>
            \A i \in Positions(b) :
                LET r == batches[b].reqs[i]
                    out == Score(objs[batches[b].scorer].weights,
                                 reqs[r].features)
                IN /\ batches[b].scores[i] = out
                   /\ reqs[r].result = out
                   /\ reqs[r].via = "event" => reqs[r].ret = out

\* C1 witness: a batch of two requests was scored and both callers returned
\* their own, different, scores
BatchOrderWitness ==
    \E b \in 1..Len(batches) :
        /\ batches[b].status = "done"
        /\ Len(batches[b].reqs) = 2
        /\ Len(batches[b].scores) = 2
        /\ \A i \in 1..2 : reqs[batches[b].reqs[i]].via = "event"
        /\ reqs[batches[b].reqs[1]].ret # reqs[batches[b].reqs[2]].ret

\* C2 (as claimed): a batch is taken off the queue only when it has
\* max_batch_size requests or its first request has waited batch_timeout;
\* requests arriving before that are coalesced into it.
FlushOnlyOnTrigger ==
    [][Len(batches') > Len(batches) =>
          LET b == batches'[Len(batches')]
          IN \/ Len(b.reqs) = max_batch_size
             \/ Age(b.reqs[1]) >= BatchTimeout]_vars

\* C3 (as claimed): a request never waits on the queue for longer than
\* batch_timeout (the scheduling slack is below one tick: the processor's
\* own steps take no time in this model).
FlushedWithinTimeout ==
    \A i \in 1..Len(pending) : Age(pending[i]) <= BatchTimeout

\* Every enqueued request is on the queue or in one batch, never twice
InOneBatch ==
    \A r \in 1..Len(reqs) :
        Cardinality({i \in 1..Len(pending) : pending[i] = r})
          + Cardinality({p \in (1..Len(batches)) \X (1..max_batch_size) :
                            /\ p[2] <= Len(batches[p[1]].reqs)
                            /\ batches[p[1]].reqs[p[2]] = r})
          = 1

\* A batch taken off the queue keeps its requests, and its status only
\* moves forward: FLUSHING to DONE or FAILED, and no further
SealedStep ==
    \A b \in 1..Len(batches) :
        /\ Len(batches') >= Len(batches)
        /\ batches'[b].reqs = batches[b].reqs
        /\ batches[b].status # "flushing" =>
               batches'[b].status = batches[b].status
        /\ batches'[b].status \in {batches[b].status, "done", "failed"}

\* C4: a batch moves one way through OPEN, FLUSHING, DONE or FAILED: no
\* request joins a batch once it is taken off the queue, later requests
\* form a new batch, and every enqueued request belongs to exactly one
\* batch (the open one while it is still queued).
BatchLifecycle == []InOneBatch /\ [][SealedStep]_vars

\* C4 witness: a request enqueued after the first batch was sealed sits in
\* a second batch
BatchLifecycleWitness ==
    /\ Len(batches) >= 2
    /\ batches[1].status \in {"done", "failed"}
    /\ reqs[batches[2].reqs[1]].timestamp > reqs[batches[1].reqs[1]].timestamp

\* C5 (as claimed): a call whose wait exceeded its deadline fails with
\* TIMEOUT.
TimeoutFailsWithError ==
    \A r \in 1..Len(reqs) :
        reqs[r].via = "timeout" => reqs[r].err = "TIMEOUT"

\* C5 (amended): a call whose wait exceeded its deadline returns the
\* default score 0.0 without an error, and a result set on its request is
\* never what the caller got.
TimeoutReturnsDefault ==
    \A r \in 1..Len(reqs) :
        reqs[r].via = "timeout" =>
            /\ reqs[r].ret = DefaultScore
            /\ reqs[r].err = "none"

\* C5 witness: a caller timed out and its request holds a scorer's result
TimeoutWitness ==
    \E r \in 1..Len(reqs) :
        /\ reqs[r].via = "timeout"
        /\ reqs[r].event
        /\ reqs[r].result > DefaultScore

\* The requests of the batches during which the scorer raised
RaisedRequests ==
    {r \in 1..Len(reqs) :
        \E b \in 1..Len(batches) :
            /\ batches[b].raised
            /\ r \in Range(batches[b].reqs)}

\* C6 (as claimed): if the scorer raises, every call of the batch fails
\* with INFERENCE_ERROR.
ScorerErrorFailsCalls ==
    \A r \in RaisedRequests :
        reqs[r].state = "returned" => reqs[r].err = "INFERENCE_ERROR"

\* C6 (amended): if the scorer raises, every request of the batch is given
\* the default score 0.0 and every call of the batch returns 0.0 without
\* an error.
ScorerErrorGivesDefault ==
    \A r \in RaisedRequests :
        /\ reqs[r].event
        /\ reqs[r].result = DefaultScore
        /\ reqs[r].state = "returned" =>
               /\ reqs[r].ret = DefaultScore
               /\ reqs[r].err = "none"

\* C6 witness: the scorer raised on a batch of two and a caller of that
\* batch, woken by its event, returned
ScorerErrorWitness ==
    \E b \in 1..Len(batches) :
        /\ batches[b].raised
        /\ Len(batches[b].reqs) = 2
        /\ reqs[batches[b].reqs[2]].via = "event"

\* C7 (as claimed): the queue never holds more than 8 * max_batch_size
\* requests.
QueueBounded == Len(pending) <= 8 * max_batch_size

\* The scores of every scored batch are the outputs of the instance the
\* call was started on, with the weights it had then
ScoredByCalledScorer ==
    \A b \in 1..Len(batches) :
        batches[b].status = "done" =>
            batches[b].scores =
                [i \in 1..Len(batches[b].reqs) |->
                    Score(objs[batches[b].scorer].weights,
                          reqs[batches[b].reqs[i]].features)]

\* While a scorer call is in flight no step changes the instance it runs
\* on or that instance's weights
InFlightStep ==
    (bp.pc = "predict" /\ bp'.pc = "predict") =>
        /\ bp'.scorer = bp.scorer
        /\ objs'[bp.scorer] = objs[bp.scorer]

FailedReloadKeepsPrior ==
    (ld.pc = "idle" /\ ld.kind = "reload" /\ ~ld.success) =>
        /\ model = ld.old_model
        /\ model_version = ld.old_version

\* C9 witness: a reload of a serving model created a new instance, failed
\* to load its weights and returned False
FailedReloadWitness ==
    /\ ld.pc = "idle"
    /\ ld.kind = "reload"
    /\ ~ld.success
    /\ ld.old_model # 0
    /\ objs[ld.old_model].loaded
    /\ Len(objs) > ld.old_model

\* C10 (as claimed): compute-on-miss is single-flight per id: of the reads
\* that missed the cache for one id, at most one holds computed features
\* that it has yet to store and return.
SingleFlight ==
    \A i \in Ids :
        Cardinality({t \in Tasks : /\ tasks[t].pc = "setex"
                                   /\ tasks[t].id = i}) <= 1

\* The records that applying the writes of the writers in S one after the
\* other, in any order, leaves behind when the first of them reads v
RECURSIVE SerialResults(_, _)
SerialResults(S, v) ==
    IF S = {} THEN {v}
    ELSE UNION {SerialResults(S \ {w}, Written(writers[w], v)) : w \in S}

\* The writers that were started for id i
WritersOf(i) == {w \in Writers : writers[w].id = i}

\* C11 (as claimed): concurrent writers of one user's cached features are
\* serialized: once two or more writers for the same id have all completed
\* without a redis error, the stored record is what applying their writes
\* one after the other, in some order, gives.
WritersSerialized ==
    \A i \in Ids :
        ( /\ Cardinality(WritersOf(i)) >= 2
          /\ \A w \in WritersOf(i) : /\ writers[w].pc = "done"
                                     /\ ~writers[w].failed )
        => cache[i] \in SerialResults(WritersOf(i), ComputedFeatures(i))

\* C12 (as claimed): each (job name, slot) executes at most once, whatever
\* the starts and stops of the scheduler and however many service
\* instances own one.
AtMostOncePerSlot == \A k \in JobNames \X Slots : runs[k] <= 1

\* The returned lists of the normal path, and of every path
NormalOutputs == {k \in 1..Len(outputs) : outputs[k].path = "normal"}

DegradedOutputs == {k \in 1..Len(outputs) : outputs[k].path = "degraded"}

\* A content violates a policy predicate of the configuration at time t
ViolatesPolicy(content, t) ==
    \/ content.quality_score < MinContentQualityScore
    \/ /\ content.publish_time.kind # "none"
       /\ t # NoneVal
       /\ (t - content.publish_time.t) \div 2 > MaxContentAgeDays
    \/ content.category \in BlockedCategories
    \/ content.author_id \in BlockedAuthors
    \/ content.user_rating < MinUserRating
    \/ RequireContentReview /\ content.review_status # "approved"

\* C13 (as claimed): no item of a returned list violates a policy predicate
\* (quality, age at the time the rules were applied, blocked category or
\* author, rating, review status), on every return path.
PolicyComplete ==
    \A k \in 1..Len(outputs) :
        \A j \in 1..Len(outputs[k].items) :
            ~ViolatesPolicy(outputs[k].items[j].content,
                            outputs[k].current_time)

\* No two items of a list share a content_id
UniqueIdsIn(items) ==
    \A i, j \in 1..Len(items) :
        i < j => items[i].content.content_id # items[j].content.content_id

\* The contents of every algorithm list of the request, in order
AllContents == request.algorithm_results[1] \o request.algorithm_results[2]

\* C14 (as claimed): no two items of a returned list share a content_id,
\* for every input.
UniqueItemIds == \A k \in 1..Len(outputs) : UniqueIdsIn(outputs[k].items)

\* C14 (amended): no two items of a list returned on the normal path (no
\* stage raised) share a content_id, also when the same content_id appears
\* several times within or across the algorithm lists; the degraded
\* fallback returns the first algorithm's list as it came.
UniqueItemIdsOnNormalPath ==
    \A k \in NormalOutputs : UniqueIdsIn(outputs[k].items)

\* A normal return that holds a content whose id came in more than once
UniqueItemIdsWitness ==
    \E k \in NormalOutputs :
        \E j \in 1..Len(outputs[k].items) :
            Cardinality({i \in 1..Len(AllContents) :
                AllContents[i].content_id
                    = outputs[k].items[j].content.content_id}) >= 2

\* No two items of a list are more similar than the threshold
NoNearDuplicatesIn(items) ==
    \A i, j \in 1..Len(items) :
        i < j => ~Similar(items[i].content, items[j].content)

\* C15 (as claimed): no two items of a returned list have a combined
\* title/summary Jaccard similarity above the near-dedup threshold.
NoNearDuplicates ==
    \A k \in 1..Len(outputs) : NoNearDuplicatesIn(outputs[k].items)

\* C15 (amended): no two items of a list returned on the normal path are
\* more similar than the threshold: a content that is too similar to one
\* already kept is dropped by the dedup stage.
NoNearDuplicatesOnNormalPath ==
    \A k \in NormalOutputs : NoNearDuplicatesIn(outputs[k].items)

\* A normal return for a request that held two contents with different
\* ids and a similarity above the threshold, one of which is returned
NoNearDuplicatesWitness ==
    \E k \in NormalOutputs :
        \E j \in 1..Len(outputs[k].items) :
            \E i \in 1..Len(AllContents) :
                /\ AllContents[i].content_id
                       # outputs[k].items[j].content.content_id
                /\ Similar(AllContents[i], outputs[k].items[j].content)

\* C16: the fusion pipeline never fails as a whole: whatever a stage
\* raises, fuse_and_rerank returns a list (possibly empty) and no exception
\* leaves it.
NeverFailsAsAWhole ==
    \A k \in 1..Len(outputs) :
        /\ outputs[k].path \in {"normal", "degraded"}
        /\ DOMAIN outputs[k].items = 1..Len(outputs[k].items)

\* A stage has raised and a list was returned all the same
NeverFailsWitness ==
    \E k \in DegradedOutputs : outputs[k].items # <<>>

\* The first target_size contents of a list, as they were passed in
CutToTarget(results) ==
    RawList(SubSeq(results, 1, Min(Len(results), request.target_size)))

AtMostTargetSize ==
    \A k \in 1..Len(outputs) :
        Len(outputs[k].items) <= request.target_size

\* Returns of both paths that were cut: a normal one for more than
\* target_size different contents that pass the rules, a degraded one for a
\* first list longer than target_size
AtMostTargetSizeWitness ==
    /\ \E k \in NormalOutputs :
           /\ Len(outputs[k].items) = request.target_size
           /\ Cardinality({AllContents[i].content_id :
                              i \in {j \in 1..Len(AllContents) :
                                  PassesRules(AllContents[j],
                                              outputs[k].current_time)}})
                  > request.target_size
    /\ \E k \in DegradedOutputs :
           Len(request.algorithm_results[1]) > Len(outputs[k].items)

Deterministic ==
    \A k, l \in 1..Len(outputs) : outputs[k].items = outputs[l].items

\* ------------------------------------------------------------ SpecRanking
\* the number of times id occurs in a sequence of content ids
CountOf(ids, id) == Cardinality({j \in 1..Len(ids) : ids[j] = id})

\* the content ids of the list rank_candidates returned
RankedIds == [j \in 1..Len(rk.ranked) |-> rk.ranked[j].content_id]

\* C21: the list rank_candidates returns holds exactly the input
\* candidates (as many as came in, every content id as often as it came
\* in), each with a ranking score, whether the request took the normal
\* path or a failure path.
NeverDropsCandidates ==
    rk.pc \in {"returned", "done"} =>
        /\ Len(rk.ranked) = Len(rk.candidates)
        /\ \A id \in RankIds :
              CountOf(RankedIds, id) = CountOf(rk.candidates, id)
        /\ \A j \in 1..Len(rk.ranked) : rk.ranked[j].ranking_score \in Nat

\* rank_candidates has returned a list for candidates that repeat a
\* content id, of which one failed (score 0.0) and another was scored
NeverDropsCandidatesWitness ==
    /\ rk.pc = "returned"
    /\ Len(rk.candidates) >= 3
    /\ rk.candidates[1] = rk.candidates[3]
    /\ \E j, k \in 1..Len(rk.ranked) :
          /\ rk.ranked[j].ranking_score = 0
          /\ rk.ranked[k].ranking_score > 0

\* the score the loop has just attached to the candidate it is at
LastScore == rk.scored[Len(rk.scored)].ranking_score

\* C22 (as claimed): a candidate whose hydration or scoring failed gets
\* the score 0.0, and a candidate for which nothing failed gets the score
\* the scorer produced for its features.
FailureGivesZero ==
    rk.pc = "next" =>
        IF rk.hydration_failed \/ rk.scoring_failed
        THEN LastScore = 0
        ELSE LastScore = Prediction(rk.scorer, rk.user_features,
                                    rk.content_features,
                                    rk.context_features)

\* C23 (as claimed): with no scorer loaded the rank request is answered
\* with 503 and without a ranked list.
UnloadedScorerFailsRequest ==
    rk.pc = "done" /\ rk.scorer = 0 /\ rk.candidates # <<>> =>
        rk.status = 503 /\ rk.ranked_items = <<>>

\* C24: the ranked_items of every rank response are non-increasing in
\* ranking_score.
NonIncreasingScores ==
    rk.pc = "done" =>
        \A j \in 1..(Len(rk.ranked_items) - 1) :
            rk.ranked_items[j].ranking_score
                >= rk.ranked_items[j + 1].ranking_score

\* a response of two items with different scores whose candidates came in
\* the opposite order
NonIncreasingScoresWitness ==
    /\ rk.pc = "done"
    /\ Len(rk.ranked_items) >= 2
    /\ rk.ranked_items[1].ranking_score > rk.ranked_items[2].ranking_score
    /\ rk.scored[1].ranking_score < rk.scored[2].ranking_score

\* the popularity of a content: the content_hot_score of its features in
\* the feature store, the default when it has none
Popularity(id) ==
    IF rk.store[id] \in {0, CorruptFeatures} THEN DefaultContentFeatures
    ELSE rk.store[id]

\* C25 (as claimed): items of a response with equal ranking_score are in
\* descending order of popularity, and in ascending order of content id
\* when the popularity is equal too.
TiesByPopularityThenId ==
    rk.pc = "done" =>
        \A j \in 1..(Len(rk.ranked_items) - 1) :
            LET a == rk.ranked_items[j]
                b == rk.ranked_items[j + 1]
            IN  a.ranking_score = b.ranking_score =>
                    \/ Popularity(a.content_id) > Popularity(b.content_id)
                    \/ /\ Popularity(a.content_id) = Popularity(b.content_id)
                       /\ a.content_id <= b.content_id

\* ------------------------------------------------------------ SpecWriters
\* the behavior_score of a features record, in tenths
BehaviorScore(v) == v - 1

\* C26 (as claimed): every behavior_score the feature store holds, and
\* every one a writer is about to store, is within [0, 10], whatever
\* patches, compute-on-miss fills and offline refreshes have run.
ClampLaw ==
    /\ \A i \in Ids :
          cache[i] # 0 => BehaviorScore(cache[i]) \in 0..100
    /\ \A w \in Writers :
          writers[w].pc = "setex" =>
              BehaviorScore(writers[w].val) \in 0..100

\* ------------------------------------------------------------- SpecIngest
\* the behavior log holds the event of request w
Appended(w) == BehaviorRow(w) \in user_behaviors

\* C27: a failure of the patch (the KV tier unavailable on the GET or on
\* the SETEX) never keeps the event out of the behavior log: the append
\* is always attempted after the patch, and once the background tasks of
\* a request are over the event is in the log unless the append itself
\* failed.
PatchIsBestEffort ==
    \A w \in Writers :
        /\ bg[w].pc # "aborted"
        /\ bg[w].pc = "done" /\ ~bg[w].store_failed => Appended(w)

\* the patch of a request failed and its event is in the log
PatchIsBestEffortWitness ==
    \E w \in Writers :
        /\ bg[w].pc = "done"
        /\ writers[w].failed
        /\ Appended(w)

\* ---------------------------------------------------------- SpecScheduler
\* C28: once stop_scheduler of an instance has returned, and until the
\* instance is started again, the registry holds none of its jobs (so no
\* thread can run them) and its own threads run no job.
StoppedDispatchesNothing ==
    /\ [](\A s \in Services :
             ~services[s].is_running =>
                 \A j \in 1..Len(jobs) : jobs[j].owner # s)
    /\ [][\A s \in Services :
             ~services[s].is_running =>
                 services'[s].dispatched = services[s].dispatched]_vars

\* an instance that has run jobs is stopped while its thread is still
\* alive, the other instance is running and a job of the registry is due
StoppedDispatchesNothingWitness ==
    \E s, r \in Services :
        /\ services[s].dispatched > 0
        /\ ~services[s].is_running
        /\ services[s].threads > 0
        /\ services[r].is_running
        /\ \E j \in 1..Len(jobs) : ShouldRun(jobs[j])

\* ------------------------------------------------------------- SpecStages
\* the calls of the fusion stage, and of the diversity stage
FuseOutputs == {k \in 1..Len(outputs) : outputs[k].path = "fuse"}

DiversityOutputs ==
    {k \in 1..Len(outputs) :
        outputs[k].path = "diversity" /\ Len(outputs[k].args) = 10}

\* the number of algorithms whose list holds the content id
ProducedBy(ar, id) ==
    Cardinality({a \in 1..Len(ar) :
                    \E j \in 1..Len(ar[a]) : ar[a][j].content_id = id})

\* C29: a fused item that every algorithm producing it has at rank 1 with
\* the raw score 0.8 has the fusion_score 0.8 plus (algorithms producing
\* it) / (configured algorithms) x 0.1; with two algorithms configured
\* 0.5 / 0.5, such an item produced by both scores exactly 0.05 (12/240)
\* more than such an item produced by one.
CoverageBonus ==
    /\ \A k \in FuseOutputs :
          \A j \in 1..Len(outputs[k].items) :
              outputs[k].items[j].fusion_score =
                  192 + (24 * ProducedBy(outputs[k].args,
                              outputs[k].items[j].content.content_id))
                        \div Cardinality(DOMAIN outputs[k].weights)
    /\ \A k, l \in FuseOutputs :
          outputs[k].weights = TwoEqualWeights
          /\ outputs[l].weights = TwoEqualWeights =>
              \A i \in 1..Len(outputs[k].items) :
                  \A j \in 1..Len(outputs[l].items) :
                      outputs[k].items[i].algorithm_coverage = 2
                      /\ outputs[l].items[j].algorithm_coverage = 1 =>
                          outputs[k].items[i].fusion_score
                              = outputs[l].items[j].fusion_score + 12

\* under two algorithms of weight 0.5 each, one call fused a content both
\* algorithms rank first and another call a content only the first
\* algorithm returns
CoverageBonusWitness ==
    \E k, l \in FuseOutputs :
        /\ outputs[k].weights = TwoEqualWeights
        /\ outputs[l].weights = TwoEqualWeights
        /\ outputs[k].args = <<(<<ItemY>>), (<<ItemY>>)>>
        /\ outputs[l].args = <<(<<ItemX>>), (<<>>)>>
        /\ outputs[k].items[1].fusion_score = 216
        /\ outputs[l].items[1].fusion_score = 204

\* the items hold a content of category sports
HasSports(items) ==
    \E j \in 1..Len(items) : items[j].content.category = "sports"

\* C30 as claimed: of 10 candidates, 8 of category tech with a
\* fusion_score of about 0.9 and 2 of category sports with about 0.7,
\* the 5 contents the diversity stage returns include a sports content.
SportsInTopFive ==
    \A k \in DiversityOutputs : HasSports(outputs[k].items)

\* the sports candidates of the call lie in another time bucket than the
\* tech candidates
SportsInOtherBucket(results) ==
    results[9].content.publish_time.t # results[1].content.publish_time.t

\* the sports candidates are of another content type than the tech
\* candidates and by authors of their own, the tech candidates all by one
SportsOfOtherTypeAndAuthor(results) ==
    /\ results[9].content.content_type # results[1].content.content_type
    /\ results[9].content.author_id # results[1].content.author_id
    /\ results[2].content.author_id = results[1].content.author_id

\* C30: of these 10 candidates the diversity stage returns 5, the first
\* of them the best tech content; they include a sports content exactly
\* when the sports candidates also lie in another time bucket than the
\* tech candidates, or are of another content type and by other authors
\* than the tech candidates, which share one author.  Candidates that
\* differ in category alone give five tech contents.
SportsNeedAnotherAxis ==
    \A k \in DiversityOutputs :
        /\ Len(outputs[k].items) = 5
        /\ outputs[k].items[1] = outputs[k].args[1]
        /\ HasSports(outputs[k].items)
               <=> \/ SportsInOtherBucket(outputs[k].args)
                   \/ SportsOfOtherTypeAndAuthor(outputs[k].args)

\* the stage returned a sports content for candidates of two time
\* buckets, and five tech contents for candidates alike in all but the
\* category
SportsNeedAnotherAxisWitness ==
    \E k, l \in DiversityOutputs :
        /\ SportsInOtherBucket(outputs[k].args)
        /\ HasSports(outputs[k].items)
        /\ ~SportsInOtherBucket(outputs[l].args)
        /\ outputs[l].args[9].content.content_type = "article"
        /\ outputs[l].args[9].content.author_id
               = outputs[l].args[1].content.author_id
        /\ \A j \in 1..5 : outputs[l].items[j].content.category = "tech"

\* the calls of the diversity stage that returned, on any candidates
ReturnedSelections ==
    {k \in 1..Len(outputs) :
        outputs[k].path = "diversity" /\ ~InLoop(outputs[k])}

\* the candidates of the call not among the first j items it selected
RemainingAfter(k, j) ==
    {r \in 1..Len(outputs[k].args) :
        \A i \in 1..j : outputs[k].items[i] # outputs[k].args[r]}

\* C31: the diversity stage selects the candidate of the highest
\* fusion_score first, and at every later step no remaining candidate of
\* the same combined score as the selected one has a higher fusion_score,
\* or the same fusion_score and a smaller content id.
TiesByFusionScoreThenId ==
    \A k \in ReturnedSelections :
        LET items == outputs[k].items
            args == outputs[k].args
        IN  /\ \A r \in 1..Len(args) :
                   args[r].fusion_score <= items[1].fusion_score
            /\ \A j \in 2..Len(items) : \A r \in RemainingAfter(k, j) :
                   DiversityCombined(args[r], SubSeq(items, 1, j - 1))
                       = DiversityCombined(items[j], SubSeq(items, 1, j - 1))
                   => \/ items[j].fusion_score > args[r].fusion_score
                      \/ /\ items[j].fusion_score = args[r].fusion_score
                         /\ items[j].content.content_id
                                < args[r].content.content_id

\* C40: a call of the diversity stage on more than target_size candidates
\* never stays in its loop, and returns exactly target_size items, each
\* one of its candidates and no candidate twice.
GreedyReturnsTargetSize ==
    \A k \in 1..Len(outputs) :
        outputs[k].path = "diversity" =>
            /\ ~InLoop(outputs[k])
            /\ Len(outputs[k].items) = outputs[k].target_size
            /\ \A i \in 1..Len(outputs[k].items) :
                   \E r \in 1..Len(outputs[k].args) :
                       outputs[k].items[i] = outputs[k].args[r]
            /\ \A i, j \in 1..Len(outputs[k].items) :
                   outputs[k].items[i] = outputs[k].items[j] => i = j

\* the contents the recorded filter calls have dropped for their review
\* status alone
NotReviewedDrops ==
    {<<k, j>> \in (1..Len(outputs)) \X (1..2) :
        /\ outputs[k].path = "rules"
        /\ j <= Len(outputs[k].args)
        /\ outputs[k].args[j].content.review_status # "approved"
        /\ \A i \in 1..Len(outputs[k].items) :
               outputs[k].items[i] # outputs[k].args[j]}

\* C32: once the policy filter has dropped contents for their review
\* status, the statistics the service exposes hold a counter not_reviewed
\* that has counted each of them once.
RejectionsExposed ==
    NotReviewedDrops # {} =>
        /\ "not_reviewed" \in DOMAIN get_service_config
        /\ get_service_config.not_reviewed = Cardinality(NotReviewedDrops)

\* ------------------------------------------------------------ SpecManager
\* a call of start_model_server(name) has just returned value
StartReturned(name, value) ==
    /\ manager'.calls = manager.calls + 1
    /\ manager'.result = [op |-> "start", name |-> name, value |-> value]

\* C33: a name is in active_servers only if it is registered and the load
\* of its server succeeded; start_model_server on an unregistered name, or
\* with a load that fails, returns False and adds no active server, and on
\* an active name returns True and creates no second server.
ActiveOnlyIfLoaded ==
    /\ [](\A name \in ModelNames :
             manager.active_servers[name] # 0 =>
                 /\ name \in manager.model_configs
                 /\ manager.servers[manager.active_servers[name]]
                        = [name |-> name, loaded |-> TRUE])
    /\ [][\A name \in ModelNames :
             /\ StartReturned(name, FALSE) =>
                    manager'.active_servers = manager.active_servers
             /\ name \notin manager.model_configs =>
                    ~StartReturned(name, TRUE)
             /\ StartReturned(name, TRUE) =>
                    manager'.active_servers[name] # 0
             /\ manager.active_servers[name] # 0 =>
                    /\ ~StartReturned(name, FALSE)
                    /\ StartReturned(name, TRUE) =>
                           /\ manager'.servers = manager.servers
                           /\ manager'.active_servers
                                  = manager.active_servers]_vars

\* a start has failed on an unregistered name or a failed load and left no
\* server active, and another name is active after a successful start
ActiveOnlyIfLoadedWitness ==
    /\ manager.result = [op |-> "start", name |-> "test_model",
                         value |-> FALSE]
    /\ manager.active_servers["test_model"] = 0
    /\ manager.active_servers["other_model"] # 0
    /\ \E k \in 1..Len(manager.servers) : ~manager.servers[k].loaded

\* ------------------------------------------------------------ SpecBatcher
\* C34: once the processing of a batch has ended, with scores, with an
\* error or with fewer scores than requests, the completion of every
\* request of the batch has been signalled.
BatchSignalsEveryRequest ==
    \A b \in 1..Len(batches) :
        batches[b].status \in {"done", "failed"} =>
            \A i \in 1..Len(batches[b].reqs) :
                reqs[batches[b].reqs[i]].event


\* C35 (as claimed): a new scorer is built aside and only then swapped in:
\* the scorer a starting batch finds in self.model, at any moment of a load
\* or reload, is the previously loaded one or the new one with its weights
\* loaded, never a replacement whose load has not succeeded yet.
StartingBatchSeesLoadedScorer ==
    (bp.pc = "call" /\ model # 0) => objs[model].loaded


\* --------------------------------------------------------- SpecHydration
\* C36 (as claimed): a ranking-time cache miss that fills in default
\* features never overwrites features written for the same id by a
\* concurrent update_user_features or update_content_features: once the
\* lookup that missed and the update have both completed, the key holds
\* the updated features, not the defaults.
UpdateSurvivesMiss ==
    \A k \in FeatureKeys :
        ( /\ feature_store.lookup[k].pc = "done"
          /\ feature_store.lookup[k].missed
          /\ feature_store.update[k].pc = "done" )
        => feature_store.redis[k] = feature_store.update[k].processed


\* C37 (as claimed): while the scheduler is running every due firing of a
\* registered job executes the job's computation (the daily viewer
\* refresh runs compute_all_user_features): each job function that a
\* scheduler thread of an instance has run has started its computation.
FiringsRunTheirComputation ==
    \A s \in Services :
        services[s].tasks_created = services[s].dispatched

\* C38 (as claimed): for one OfflineFeatureService at most one scheduler
\* loop thread is live at any time, across any sequence of
\* start_scheduler and stop_scheduler calls, a start_scheduler right
\* after stop_scheduler has returned included.
OneSchedulerThread == \A s \in Services : services[s].threads <= 1

\* the jobs of the registry that are bound to instance s and run the job
\* function of the name
JobsOf(s, name) ==
    {j \in 1..Len(jobs) : jobs[j].owner = s /\ jobs[j].name = name}

\* C39 (as claimed): starting or stopping the scheduler of one instance
\* does not add, remove or duplicate the registered jobs of the other
\* instance of the process: while an instance is running each of its five
\* jobs is registered exactly once.
RunningInstanceKeepsItsJobs ==
    \A s \in Services :
        services[s].is_running =>
            \A name \in JobNames : Cardinality(JobsOf(s, name)) = 1

====
